---- MODULE Spec2Model ----
(***************************************************************************)
(* A state-machine model of pebble's levelIter (level_iter.go): the        *)
(* iterator that presents the sstables of one LSM level as one ordered     *)
(* stream of point keys, pausing at sstable boundaries while a range       *)
(* deletion iterator of the file is handed to the merging iterator.        *)
(*                                                                         *)
(* User keys are naturals compared as integers; the prefix of a key is     *)
(* key \div PrefixWidth.  A file handle is the index of the file in the    *)
(* level (0 is the nil file).  Every public method of levelIter is one     *)
(* action; the helper methods are operators that thread the record `l`     *)
(* (the levelIter struct, the position of the manifest cursor l.files and  *)
(* a per-call log) through the calls in the order of the source.           *)
(***************************************************************************)
EXTENDS Integers, Sequences, FiniteSets, TLC

\* ---------------------------------------------------------------- bounds
PrefixWidth == 3     \* number of consecutive user keys sharing a prefix
NumSlots == 3        \* files of a slotted level
WideFiles == 7       \* files of a level of one-key files
SlotWidth == 2       \* user keys per slot of a slotted level
MaxKey == NumSlots * SlotWidth   \* user keys are 0..MaxKey

Nil == -1            \* the nil key / nil bound
NoErr == "nil"       \* the nil error

Keys == 0..MaxKey
SentinelKeys == 0..(MaxKey + 1)

Min(a, b) == IF a <= b THEN a ELSE b
Max(a, b) == IF a >= b THEN a ELSE b

\* ------------------------------------------------------ comparer / split
\* l.split followed by the slice key[:n]: the prefix of a user key.
Split(k) == k \div PrefixWidth

\* ---------------------------------------------------------- file metadata
\* A fileMetadata record.  keys is the sorted sequence of the user keys of
\* the point records; SmallestPointKey/LargestPointKey also cover the range
\* deletions of the file; rangeDel says whether the file has range
\* deletions (and so whether the opener returns a range-deletion iterator).
File(keys, sp, lp, excl, hasPoint, rangeDel, hasRange, sr, lr, statsValid, sets) ==
  [keys |-> keys, SmallestPointKey |-> sp, LargestPointKey |-> lp,
   LargestExcl |-> excl, HasPointKeys |-> hasPoint, rangeDel |-> rangeDel,
   HasRangeKeys |-> hasRange, SmallestRangeKey |-> sr, LargestRangeKey |-> lr,
   StatsValid |-> statsValid, NumRangeKeySets |-> sets]

\* The overall bounds of a file (point and range keys), as the manifest
\* cursor compares them.
Smallest(f) ==
  IF ~f.HasPointKeys THEN f.SmallestRangeKey
  ELSE IF ~f.HasRangeKeys THEN f.SmallestPointKey
  ELSE Min(f.SmallestPointKey, f.SmallestRangeKey)
Largest(f) ==
  IF ~f.HasPointKeys THEN f.LargestRangeKey
  ELSE IF ~f.HasRangeKeys THEN f.LargestPointKey
  ELSE Max(f.LargestPointKey, f.LargestRangeKey)

\* The shapes a file occupying the slot that starts at user key b can have.
\* Two point keys, nothing else.
TwoPoints(b) == File(<<b, b + 1>>, b, b + 1, FALSE, TRUE, FALSE, FALSE, Nil, Nil, TRUE, 0)
\* One point key, leaving a gap before the next slot.
OnePoint(b) == File(<<b>>, b, b, FALSE, TRUE, FALSE, FALSE, Nil, Nil, TRUE, 0)
\* A point key and a tombstone reaching to the next slot: the largest point
\* key is an exclusive range-deletion sentinel.
PointTailTombstone(b) ==
  File(<<b>>, b, b + SlotWidth, TRUE, TRUE, TRUE, FALSE, Nil, Nil, TRUE, 0)
\* A tombstone starting before the only point key.
HeadTombstonePoint(b) == File(<<b + 1>>, b, b + 1, FALSE, TRUE, TRUE, FALSE, Nil, Nil, TRUE, 0)
\* Tombstones only.
TombstonesOnly(b) == File(<<>>, b, b + SlotWidth, TRUE, TRUE, TRUE, FALSE, Nil, Nil, TRUE, 0)
\* Range keys only.
RangeKeysOnly(b) == File(<<>>, Nil, Nil, FALSE, FALSE, FALSE, TRUE, b, b + SlotWidth, TRUE, 1)
\* A point key and a range key set extending past it; no valid stats.
PointRangeKeySet(b) == File(<<b>>, b, b, FALSE, TRUE, FALSE, TRUE, b, b + SlotWidth, FALSE, 0)
\* Point keys and range key unsets only (valid stats, no sets).
PointsRangeUnsets(b) ==
  File(<<b, b + 1>>, b, b + 1, FALSE, TRUE, FALSE, TRUE, b, b + 1, TRUE, 0)
SlotShapes(b) ==
  { TwoPoints(b), OnePoint(b), PointTailTombstone(b), HeadTombstonePoint(b),
    TombstonesOnly(b), RangeKeysOnly(b), PointRangeKeySet(b), PointsRangeUnsets(b) }
\* A slotted level: every slot is empty or holds one file of one shape.
RECURSIVE SlottedFrom(_)
SlottedFrom(i) ==
  IF i >= NumSlots THEN { <<>> }
  ELSE LET rest == SlottedFrom(i + 1)
       IN  rest \cup { <<f>> \o r : f \in SlotShapes(i * SlotWidth), r \in rest }

\* A wide level: one file of one point key for each of the first WideFiles
\* user keys but gap.  The file of key tomb also has a range deletion: one
\* that covers its key only (reach = 0), or one that reaches to the user key
\* tomb + reach, which is then its largest point key, an exclusive sentinel.
WideFile(k, reach) ==
  IF reach = Nil THEN File(<<k>>, k, k, FALSE, TRUE, FALSE, FALSE, Nil, Nil, TRUE, 0)
  ELSE File(<<k>>, k, k + reach, reach > 0, TRUE, TRUE, FALSE, Nil, Nil, TRUE, 0)
RECURSIVE WideFrom(_, _, _, _)
WideFrom(k, gap, tomb, reach) ==
  IF k >= WideFiles THEN <<>>
  ELSE (IF k = gap THEN <<>> ELSE <<WideFile(k, IF k = tomb THEN reach ELSE Nil)>>)
       \o WideFrom(k + 1, gap, tomb, reach)

\* -------------------------------------------------------------- variables
VARIABLES
  level,        \* the files of the level, in key order (fixed at construction)
  hasSlot,      \* l.rangeDelIterPtr != nil (initRangeDel was called)
  hasCombined,  \* l.combinedIterState != nil (initCombinedIterState was called)
  l,            \* the levelIter struct, *rangeDelIterPtr, *combinedIterState, l.files
  ret,          \* the InternalKV returned by the last positioning call
  walk,         \* the caller's view of the walk in progress
  fatal         \* the invariant failures (panic, Fatalf) of the calls so far

vars == <<level, hasSlot, hasCombined, l, ret, walk, fatal>>

NumFiles == Len(level)
FileIdx == 1..NumFiles

\* ------------------------------------------------ manifest.LevelIterator
\* The cursor l.files is a position 0..NumFiles+1: 0 is before the first
\* file, NumFiles+1 is after the last one.
FilesCurrent(pos) == IF pos \in FileIdx THEN pos ELSE 0
FilesFirst == 1
FilesLast == NumFiles
FilesNext(pos) == IF pos > NumFiles THEN pos ELSE pos + 1
FilesPrev(pos) == IF pos < 1 THEN pos ELSE pos - 1
FilesSeekGE(key) ==
  LET c == { i \in FileIdx : Largest(level[i]) >= key }
  IN  IF c = {} THEN NumFiles + 1 ELSE CHOOSE i \in c : \A j \in c : i <= j
FilesSeekLT(key) ==
  LET c == { i \in FileIdx : Smallest(level[i]) < key }
  IN  IF c = {} THEN 0 ELSE CHOOSE i \in c : \A j \in c : i >= j

\* ------------------------------------------------- sstable point iterator
\* The inner iterator: the file it reads, the bounds it was given, its
\* position (an index into the keys of the file; 0 is before the first key,
\* Len+1 after the last) and its error.
NoIter == [file |-> 0, lo |-> Nil, up |-> Nil, pos |-> 0, err |-> NoErr]
ItKeys(it) == level[it.file].keys
InLo(it, k) == it.lo = Nil \/ k >= it.lo
InUp(it, k) == it.up = Nil \/ k < it.up
\* Number of keys of the file below key k (k = Nil: all of them for an upper
\* limit).
CountBelow(it, k) == Cardinality({ i \in 1..Len(ItKeys(it)) : ItKeys(it)[i] < k })
FwdEnd(it) == IF it.up = Nil THEN Len(ItKeys(it)) + 1 ELSE CountBelow(it, it.up) + 1
BwdEnd(it) == IF it.lo = Nil THEN 0 ELSE CountBelow(it, it.lo)
\* Place the iterator on index i if the key there is within the bounds;
\* else leave it exhausted in direction dir.
ItAt(it, i, dir) ==
  IF i >= 1 /\ i <= Len(ItKeys(it)) /\ InLo(it, ItKeys(it)[i]) /\ InUp(it, ItKeys(it)[i])
  THEN [it |-> [it EXCEPT !.pos = i, !.err = NoErr], key |-> ItKeys(it)[i]]
  ELSE [it |-> [it EXCEPT !.pos = IF dir > 0 THEN FwdEnd(it) ELSE BwdEnd(it),
                          !.err = NoErr],
        key |-> Nil]
\* A positioning call that fails: nil is returned and Error() is non-nil.
ItFail(it) == [it |-> [it EXCEPT !.err = "iter"], key |-> Nil]

ItFirst(it) == ItAt(it, BwdEnd(it) + 1, 1)
ItLast(it) == ItAt(it, FwdEnd(it) - 1, -1)
\* SeekGE; with TrySeekUsingNext the iterator only moves forward from where
\* it is, and stays exhausted if it was exhausted forward.
ItSeekGE(it, key, tsun) ==
  LET target == Max(CountBelow(it, key), BwdEnd(it)) + 1
  IN  IF tsun /\ it.err = NoErr
      THEN IF it.pos >= FwdEnd(it) THEN [it |-> it, key |-> Nil]
           ELSE ItAt(it, Max(target, it.pos), 1)
      ELSE ItAt(it, target, 1)
\* SeekPrefixGE: when the bloom filter excludes the prefix nothing is read and
\* the iterator is left unpositioned before its first key; else as SeekGE
\* (the key found may have another prefix).
ItSeekPrefixGE(it, prefix, key, tsun, bloomHit) ==
  IF ~bloomHit /\ \A i \in 1..Len(ItKeys(it)) : Split(ItKeys(it)[i]) # prefix
  THEN [it |-> [it EXCEPT !.pos = BwdEnd(it), !.err = NoErr], key |-> Nil]
  ELSE ItSeekGE(it, key, tsun)
ItSeekLT(it, key) ==
  ItAt(it, Min(CountBelow(it, key), FwdEnd(it) - 1), -1)
ItNext(it) ==
  IF it.pos >= FwdEnd(it) THEN [it |-> it, key |-> Nil]
  ELSE ItAt(it, Max(it.pos, BwdEnd(it)) + 1, 1)
ItPrev(it) ==
  IF it.pos <= BwdEnd(it) THEN [it |-> it, key |-> Nil]
  ELSE ItAt(it, Min(it.pos, FwdEnd(it)) - 1, -1)
ItNextPrefix(it, succKey) ==
  IF it.pos >= FwdEnd(it) THEN [it |-> it, key |-> Nil]
  ELSE ItAt(it, Max(Max(CountBelow(it, succKey), BwdEnd(it)), it.pos) + 1, 1)
ItSetBounds(it, lo, up) == [it EXCEPT !.lo = lo, !.up = up]
\* Close of the point iterator returns the error the iterator holds, else
\* the error of the close itself.
ItClose(it, e) ==
  IF it.err # NoErr THEN it.err ELSE IF e.closePointFail THEN "closePoint" ELSE NoErr
\* Close of the range-deletion iterator.
RangeDelClose(e) == IF e.closeRangeFail THEN "closeRange" ELSE NoErr
\* The outcome of a positioning call of the inner iterator in environment e.
Inner(e, it, r) == IF e.iterFail THEN ItFail(it) ELSE r

\* ------------------------------------------------------------- InternalKV
NilKV == [UserKey |-> Nil, Kind |-> "nil", V |-> ""]
RealKV(k) == [UserKey |-> k, Kind |-> "SET", V |-> "value"]
\* base.MakeRangeDeleteSentinelKey(userKey) with an empty LazyValue.
MakeRangeDeleteSentinelKey(k) == [UserKey |-> k, Kind |-> "RANGEDEL_SENTINEL", V |-> ""]
IsReal(kv) == kv.Kind = "SET"
IsSynthetic(kv) == kv.Kind = "RANGEDEL_SENTINEL"
IsNil(kv) == kv.Kind = "nil"

firstError(err0, err1) == IF err0 # NoErr THEN err0 ELSE err1

\* A local variable: Body applied to the value v that a call returned, as
\* in `x := call(); body`.
Bind(v, Body(_)) == Body(v)

\* The flags of a seek.
Flags(tsun, rel) == [TrySeekUsingNext |-> tsun, RelativeSeek |-> rel]
SeekGEFlagsNone == Flags(FALSE, FALSE)

\* The environment of one call: which of the external calls fail, and what
\* the bloom filter of the sstable answers for a prefix it does not contain.
Env(openFail, iterFail, closePointFail, closeRangeFail, bloomHit) ==
  [openFail |-> openFail, iterFail |-> iterFail, closePointFail |-> closePointFail,
   closeRangeFail |-> closeRangeFail, bloomHit |-> bloomHit]
EnvOK == Env(FALSE, FALSE, FALSE, FALSE, TRUE)

\* The environments of a call: no failure, or one kind of failure.
Faults ==
  { Env(TRUE, FALSE, FALSE, FALSE, TRUE), Env(FALSE, TRUE, FALSE, FALSE, TRUE),
    Env(FALSE, FALSE, TRUE, FALSE, TRUE), Env(FALSE, FALSE, FALSE, TRUE, TRUE) }
Envs == {EnvOK} \cup Faults
BloomMiss == Env(FALSE, FALSE, FALSE, FALSE, FALSE)

\* ----------------------------------------------------------------- levelIter
\* The per-call log, cleared when a public method is entered.
EmptyLog ==
  [opened |-> <<>>,        \* files handed to the table opener, in order
   closedPoint |-> <<>>,   \* point iterators closed, in order
   closedRange |-> <<>>,   \* range-deletion iterators closed, in order
   seeks |-> 0,            \* binary-search seeks of the manifest cursor
   found |-> Nil,          \* the file returned by the first findFileGE/LT
   bothFlags |-> FALSE,    \* findFileGE saw TrySeekUsingNext and RelativeSeek
   overlap |-> FALSE,      \* the opener was called while an iterator was open
   nexts |-> 0,            \* calls of l.files.Next()
   prevs |-> 0,            \* calls of l.files.Prev()
   behind |-> FALSE,       \* a seek after steps moved the cursor against them
   assertFail |-> FALSE,   \* the assertion of makeSyntheticBoundary failed
   boundFatal |-> FALSE]   \* verify found a key outside the bounds
LogFields == DOMAIN EmptyLog

\* The levelIter struct right after newLevelIter/init with bounds lo, up.
NewLevelIter(lo, up) ==
  [lower |-> lo, upper |-> up, tableLower |-> Nil, tableUpper |-> Nil,
   smallestBoundary |-> FALSE, largestBoundary |-> FALSE, syntheticBoundary |-> NilKV,
   initialized |-> FALSE, triggered |-> FALSE, key |-> Nil,
   iter |-> NoIter, iterFile |-> 0, slot |-> 0, rangeDelIterCopy |-> 0,
   files |-> 0, err |-> NoErr, exhaustedDir |-> 0]
IterFields == DOMAIN NewLevelIter(Nil, Nil)

\* The record threaded through a call: the struct and the log.
Enter(li) == li @@ EmptyLog
IterOf(s) == [f \in IterFields |-> s[f]]
LogOf(s) == [f \in LogFields |-> s[f]]

\* emitSyntheticBoundaries that only asks whether a slot was registered.
emitWhenRegistered(s) == hasSlot

emitSyntheticBoundaries(s) == hasSlot /\ s.slot # 0

\* Returns the struct with l.syntheticBoundary set; the caller stores the
\* pointer in smallestBoundary or largestBoundary.
makeSyntheticBoundary(s, userKey) ==
  [s EXCEPT !.assertFail = @ \/ ~emitSyntheticBoundaries(s),
            !.syntheticBoundary = MakeRangeDeleteSentinelKey(userKey)]

maybeTriggerCombinedIteration(s, file, dir) ==
  IF file = 0 THEN s
  ELSE
    LET f == level[file] IN
    IF /\ f.HasRangeKeys /\ hasCombined /\ ~s.initialized
       /\ (s.upper = Nil \/ f.SmallestRangeKey < s.upper)
       /\ (s.lower = Nil \/ f.LargestRangeKey > s.lower)
       /\ (~f.StatsValid \/ f.NumRangeKeySets > 0)
    THEN
      IF dir = 1
      THEN IF ~s.triggered
           THEN [s EXCEPT !.triggered = TRUE, !.key = f.SmallestRangeKey]
           ELSE IF s.key > f.SmallestRangeKey
                THEN [s EXCEPT !.key = f.SmallestRangeKey] ELSE s
      ELSE IF dir = -1
      THEN IF ~s.triggered
           THEN [s EXCEPT !.triggered = TRUE, !.key = f.LargestRangeKey]
           ELSE IF s.key < f.LargestRangeKey
                THEN [s EXCEPT !.key = f.LargestRangeKey] ELSE s
      ELSE s
    ELSE s

\* l.files.Next(), l.files.Prev(), l.files.SeekGE(key), l.files.SeekLT(key):
\* the struct with the cursor moved; the file is FilesCurrent of the cursor.
StepNext(s) == [s EXCEPT !.files = FilesNext(@), !.nexts = @ + 1]
StepPrev(s) == [s EXCEPT !.files = FilesPrev(@), !.prevs = @ + 1]
StepSeekGE(s, key) ==
  [s EXCEPT !.files = FilesSeekGE(key), !.seeks = @ + 1,
            !.behind = @ \/ (s.nexts > 0 /\ FilesSeekGE(key) < s.files)]
StepSeekLT(s, key) ==
  [s EXCEPT !.files = FilesSeekLT(key), !.seeks = @ + 1,
            !.behind = @ \/ (s.prevs > 0 /\ FilesSeekLT(key) > s.files)]
Cur(s) == FilesCurrent(s.files)

\* The number of Nexts findFileGE tries before it seeks.
NextsUntilSeek == 4

\* The loop of findFileGE that returns a file whose largest point key is an
\* exclusive sentinel at the key.
RECURSIVE findFileGELoopKeepsSentinel(_, _, _, _, _)
findFileGELoopKeepsSentinel(s, m, nextInsteadOfSeek, nextsUntilSeek, key) ==
  IF m = 0 THEN [s |-> s, m |-> 0]
  ELSE
    LET f == level[m]
        s1 == IF f.HasRangeKeys THEN maybeTriggerCombinedIteration(s, m, 1) ELSE s
    IN
    IF f.HasRangeKeys /\ ~f.HasPointKeys
    THEN findFileGELoopKeepsSentinel(StepNext(s1), Cur(StepNext(s1)), nextInsteadOfSeek,
                                     nextsUntilSeek, key)
    ELSE IF (f.HasRangeKeys \/ nextInsteadOfSeek) /\ f.LargestPointKey < key
    THEN IF nextInsteadOfSeek /\ nextsUntilSeek = 0
         THEN findFileGELoopKeepsSentinel(StepSeekGE(s1, key), Cur(StepSeekGE(s1, key)), FALSE,
                                          nextsUntilSeek, key)
         ELSE findFileGELoopKeepsSentinel(StepNext(s1), Cur(StepNext(s1)), nextInsteadOfSeek,
                             IF nextsUntilSeek > 0 THEN nextsUntilSeek - 1 ELSE nextsUntilSeek, key)
    ELSE [s |-> s1, m |-> m]

\* The loop of findFileGE.
RECURSIVE findFileGELoop(_, _, _, _, _)
findFileGELoop(s, m, nextInsteadOfSeek, nextsUntilSeek, key) ==
  IF m = 0 THEN [s |-> s, m |-> 0]
  ELSE
    LET f == level[m]
        s1 == IF f.HasRangeKeys THEN maybeTriggerCombinedIteration(s, m, 1) ELSE s
    IN
    IF f.HasRangeKeys /\ ~f.HasPointKeys
    THEN findFileGELoop(StepNext(s1), Cur(StepNext(s1)), nextInsteadOfSeek, nextsUntilSeek, key)
    ELSE IF (f.HasRangeKeys \/ nextInsteadOfSeek) /\ f.LargestPointKey < key
    THEN IF nextInsteadOfSeek /\ nextsUntilSeek = 0
         THEN findFileGELoop(StepSeekGE(s1, key), Cur(StepSeekGE(s1, key)), FALSE, nextsUntilSeek, key)
         ELSE findFileGELoop(StepNext(s1), Cur(StepNext(s1)), nextInsteadOfSeek,
                             IF nextsUntilSeek > 0 THEN nextsUntilSeek - 1 ELSE nextsUntilSeek, key)
    ELSE IF f.LargestExcl /\ f.LargestPointKey = key
    THEN findFileGELoop(StepNext(s1), Cur(StepNext(s1)), nextInsteadOfSeek, nextsUntilSeek, key)
    ELSE [s |-> s1, m |-> m]

\* findFileGE that does not honour RelativeSeek.
findFileGEIgnoresRelative(s, key, flags) ==
  LET nextInsteadOfSeek == flags.TrySeekUsingNext
      nextsUntilSeek == IF flags.TrySeekUsingNext THEN NextsUntilSeek ELSE 0
      s0 == [s EXCEPT !.bothFlags = @ \/ (flags.TrySeekUsingNext /\ flags.RelativeSeek)]
      s1 == IF nextInsteadOfSeek THEN s0 ELSE StepSeekGE(s0, key)
      m == IF nextInsteadOfSeek THEN s0.iterFile ELSE Cur(s1)
      r == findFileGELoop(s1, m, nextInsteadOfSeek, nextsUntilSeek, key)
  IN  [s |-> [r.s EXCEPT !.found = IF @ = Nil THEN r.m ELSE @], m |-> r.m]

\* findFileGE that steps off the current file before it compares it with
\* the key when it is told to use Next instead of a seek.
findFileGEStepsFirst(s, key, flags) ==
  LET relative == flags.RelativeSeek /\ hasCombined /\ ~s.initialized
      nextInsteadOfSeek == flags.TrySeekUsingNext \/ relative
      nextsUntilSeek == IF relative THEN -1 ELSE IF flags.TrySeekUsingNext THEN NextsUntilSeek ELSE 0
      s0 == [s EXCEPT !.bothFlags = @ \/ (flags.TrySeekUsingNext /\ flags.RelativeSeek)]
      s1 == IF nextInsteadOfSeek THEN StepNext(s0) ELSE StepSeekGE(s0, key)
      m == Cur(s1)
      r == findFileGELoop(s1, m, nextInsteadOfSeek, nextsUntilSeek, key)
  IN  [s |-> [r.s EXCEPT !.found = IF @ = Nil THEN r.m ELSE @], m |-> r.m]

\* findFileGE that returns the last file of the level when the search runs
\* off the end of the level.
findFileGEClampsToLast(s, key, flags) ==
  LET relative == flags.RelativeSeek /\ hasCombined /\ ~s.initialized
      nextInsteadOfSeek == flags.TrySeekUsingNext \/ relative
      nextsUntilSeek == IF relative THEN -1 ELSE IF flags.TrySeekUsingNext THEN NextsUntilSeek ELSE 0
      s0 == [s EXCEPT !.bothFlags = @ \/ (flags.TrySeekUsingNext /\ flags.RelativeSeek)]
      s1 == IF nextInsteadOfSeek THEN s0 ELSE StepSeekGE(s0, key)
      m == IF nextInsteadOfSeek THEN s0.iterFile ELSE Cur(s1)
      r == findFileGELoop(s1, m, nextInsteadOfSeek, nextsUntilSeek, key)
      last == IF r.m = 0 THEN NumFiles ELSE r.m
  IN  [s |-> [r.s EXCEPT !.found = IF @ = Nil THEN last ELSE @], m |-> last]

\* findFileGE in which TrySeekUsingNext keeps its budget of Nexts when
\* RelativeSeek is set as well.
findFileGEBudgetWins(s, key, flags) ==
  LET relative == flags.RelativeSeek /\ hasCombined /\ ~s.initialized
      nextInsteadOfSeek == flags.TrySeekUsingNext \/ relative
      nextsUntilSeek == IF flags.TrySeekUsingNext THEN NextsUntilSeek ELSE IF relative THEN -1 ELSE 0
      s0 == [s EXCEPT !.bothFlags = @ \/ (flags.TrySeekUsingNext /\ flags.RelativeSeek)]
      s1 == IF nextInsteadOfSeek THEN s0 ELSE StepSeekGE(s0, key)
      m == IF nextInsteadOfSeek THEN s0.iterFile ELSE Cur(s1)
      r == findFileGELoop(s1, m, nextInsteadOfSeek, nextsUntilSeek, key)
  IN  [s |-> [r.s EXCEPT !.found = IF @ = Nil THEN r.m ELSE @], m |-> r.m]

findFileGE(s, key, flags) ==
  LET relative == flags.RelativeSeek /\ hasCombined /\ ~s.initialized
      nextInsteadOfSeek == flags.TrySeekUsingNext \/ relative
      nextsUntilSeek == IF relative THEN -1 ELSE IF flags.TrySeekUsingNext THEN NextsUntilSeek ELSE 0
      s0 == [s EXCEPT !.bothFlags = @ \/ (flags.TrySeekUsingNext /\ flags.RelativeSeek)]
      s1 == IF nextInsteadOfSeek THEN s0 ELSE StepSeekGE(s0, key)
      m == IF nextInsteadOfSeek THEN s0.iterFile ELSE Cur(s1)
      r == findFileGELoop(s1, m, nextInsteadOfSeek, nextsUntilSeek, key)
  IN  [s |-> [r.s EXCEPT !.found = IF @ = Nil THEN r.m ELSE @], m |-> r.m]

\* The loop of findFileLT.
RECURSIVE findFileLTLoop(_, _, _, _)
findFileLTLoop(s, m, prevInsteadOfSeek, key) ==
  IF m = 0 THEN [s |-> s, m |-> 0]
  ELSE
    LET f == level[m]
        s1 == IF f.HasRangeKeys THEN maybeTriggerCombinedIteration(s, m, -1) ELSE s
    IN
    IF f.HasRangeKeys /\ ~f.HasPointKeys
    THEN findFileLTLoop(StepPrev(s1), Cur(StepPrev(s1)), prevInsteadOfSeek, key)
    ELSE IF (f.HasRangeKeys \/ prevInsteadOfSeek) /\ f.SmallestPointKey >= key
    THEN findFileLTLoop(StepPrev(s1), Cur(StepPrev(s1)), prevInsteadOfSeek, key)
    ELSE [s |-> s1, m |-> m]

findFileLT(s, key, flags) ==
  LET prevInsteadOfSeek == flags.RelativeSeek /\ hasCombined /\ ~s.initialized
      s1 == IF prevInsteadOfSeek THEN s ELSE StepSeekLT(s, key)
      m == IF prevInsteadOfSeek THEN s.iterFile ELSE Cur(s1)
      r == findFileLTLoop(s1, m, prevInsteadOfSeek, key)
  IN  [s |-> [r.s EXCEPT !.found = IF @ = Nil THEN r.m ELSE @], m |-> r.m]

\* initTableBounds that drops the upper bound of the table when it equals
\* the largest point key (>= in place of >, ignoring that the bound is
\* exclusive and the largest key inclusive).
initTableBoundsInclusive(s, file) ==
  LET f == level[file]
      s1 == [s EXCEPT !.tableLower = s.lower]
  IN
  IF s1.tableLower # Nil /\ f.LargestPointKey < s1.tableLower
  THEN [s |-> s1, r |-> -1]
  ELSE
    LET s2 == IF s1.tableLower # Nil /\ s1.tableLower <= f.SmallestPointKey
              THEN [s1 EXCEPT !.tableLower = Nil] ELSE s1
        s3 == [s2 EXCEPT !.tableUpper = s.upper]
    IN
    IF s3.tableUpper # Nil /\ f.SmallestPointKey >= s3.tableUpper
    THEN [s |-> s3, r |-> 1]
    ELSE IF s3.tableUpper # Nil /\ s3.tableUpper >= f.LargestPointKey
    THEN [s |-> [s3 EXCEPT !.tableUpper = Nil], r |-> 0]
    ELSE [s |-> s3, r |-> 0]

\* initTableBounds that keeps the upper bound of the iterator as the upper
\* bound of the table also when it lies beyond the file.
initTableBoundsKeepsUpper(s, file) ==
  LET f == level[file]
      s1 == [s EXCEPT !.tableLower = s.lower]
  IN
  IF s1.tableLower # Nil /\ f.LargestPointKey < s1.tableLower
  THEN [s |-> s1, r |-> -1]
  ELSE
    LET s2 == IF s1.tableLower # Nil /\ s1.tableLower <= f.SmallestPointKey
              THEN [s1 EXCEPT !.tableLower = Nil] ELSE s1
        s3 == [s2 EXCEPT !.tableUpper = s.upper]
    IN
    IF s3.tableUpper # Nil /\ f.SmallestPointKey >= s3.tableUpper
    THEN [s |-> s3, r |-> 1]
    ELSE [s |-> s3, r |-> 0]

\* Sets l.tableOpts.{Lower,Upper}Bound for file f; r is -1, +1 or 0.
initTableBounds(s, file) ==
  LET f == level[file]
      s1 == [s EXCEPT !.tableLower = s.lower]
  IN
  IF s1.tableLower # Nil /\ f.LargestPointKey < s1.tableLower
  THEN [s |-> s1, r |-> -1]
  ELSE
    LET s2 == IF s1.tableLower # Nil /\ s1.tableLower <= f.SmallestPointKey
              THEN [s1 EXCEPT !.tableLower = Nil] ELSE s1
        s3 == [s2 EXCEPT !.tableUpper = s.upper]
    IN
    IF s3.tableUpper # Nil /\ f.SmallestPointKey >= s3.tableUpper
    THEN [s |-> s3, r |-> 1]
    ELSE IF s3.tableUpper # Nil /\ s3.tableUpper > f.LargestPointKey
    THEN [s |-> [s3 EXCEPT !.tableUpper = Nil], r |-> 0]
    ELSE [s |-> s3, r |-> 0]

\* Close that closes the range-deletion iterator and leaves it in the slot.
CloseLeavesSlot(s, e) ==
  LET s1 == IF s.iter.file # 0
            THEN [s EXCEPT !.err = ItClose(s.iter, e), !.iter = NoIter,
                           !.closedPoint = Append(@, s.iter.file)]
            ELSE s
  IN  IF hasSlot
      THEN [s1 EXCEPT !.err = IF s1.rangeDelIterCopy # 0
                               THEN firstError(s1.err, RangeDelClose(e)) ELSE @,
                      !.closedRange = IF s1.rangeDelIterCopy # 0
                                      THEN Append(@, s1.rangeDelIterCopy) ELSE @,
                      !.rangeDelIterCopy = 0]
      ELSE s1

\* Close that closes the point iterator and keeps the reference to it.
CloseKeepsIter(s, e) ==
  LET s1 == IF s.iter.file # 0
            THEN [s EXCEPT !.err = ItClose(s.iter, e),
                           !.closedPoint = Append(@, s.iter.file)]
            ELSE s
  IN  IF hasSlot
      THEN [s1 EXCEPT !.err = IF s1.rangeDelIterCopy # 0
                               THEN firstError(s1.err, RangeDelClose(e)) ELSE @,
                      !.closedRange = IF s1.rangeDelIterCopy # 0
                                      THEN Append(@, s1.rangeDelIterCopy) ELSE @,
                      !.slot = 0, !.rangeDelIterCopy = 0]
      ELSE s1

\* Close that lets the error of closing the range-deletion iterator replace
\* the error it holds.
CloseLastErrorWins(s, e) ==
  LET s1 == IF s.iter.file # 0
            THEN [s EXCEPT !.err = ItClose(s.iter, e), !.iter = NoIter,
                           !.closedPoint = Append(@, s.iter.file)]
            ELSE s
  IN  IF hasSlot
      THEN [s1 EXCEPT !.err = IF s1.rangeDelIterCopy # 0
                               THEN firstError(RangeDelClose(e), s1.err) ELSE @,
                      !.closedRange = IF s1.rangeDelIterCopy # 0
                                      THEN Append(@, s1.rangeDelIterCopy) ELSE @,
                      !.slot = 0, !.rangeDelIterCopy = 0]
      ELSE s1

\* levelIter.Close; the value returned is the err field of the result.
Close(s, e) ==
  LET s1 == IF s.iter.file # 0
            THEN [s EXCEPT !.err = ItClose(s.iter, e), !.iter = NoIter,
                           !.closedPoint = Append(@, s.iter.file)]
            ELSE s
  IN  IF hasSlot
      THEN [s1 EXCEPT !.err = IF s1.rangeDelIterCopy # 0
                               THEN firstError(s1.err, RangeDelClose(e)) ELSE @,
                      !.closedRange = IF s1.rangeDelIterCopy # 0
                                      THEN Append(@, s1.rangeDelIterCopy) ELSE @,
                      !.slot = 0, !.rangeDelIterCopy = 0]
      ELSE s1
\* The table opener l.newIters on file, with the table bounds of the struct.
newIters(s, file, e) ==
  IF e.openFail
  THEN [s EXCEPT !.err = "open", !.opened = Append(@, file),
                 !.overlap = @ \/ s.iter.file # 0 \/ s.rangeDelIterCopy # 0]
  ELSE [s EXCEPT !.err = NoErr, !.opened = Append(@, file),
                 !.overlap = @ \/ s.iter.file # 0 \/ s.rangeDelIterCopy # 0,
                 !.iter = [file |-> file, lo |-> s.tableLower, up |-> s.tableUpper,
                           pos |-> 0, err |-> NoErr],
                 !.slot = IF hasSlot
                          THEN (IF level[file].rangeDel THEN file ELSE 0) ELSE @,
                 !.rangeDelIterCopy = IF hasSlot
                          THEN (IF level[file].rangeDel THEN file ELSE 0) ELSE @]

\* The loop of loadFile that steps the cursor forward over a file without
\* point keys, whatever the direction, and gives up on a file at or above
\* the upper bound.
RECURSIVE loadFileLoopAlwaysNext(_, _, _, _)
loadFileLoopAlwaysNext(s, file, dir, e) ==
  IF file = 0 THEN [s |-> [s EXCEPT !.iterFile = file], ind |-> "noFileLoaded"]
  ELSE
    LET s2 == maybeTriggerCombinedIteration([s EXCEPT !.iterFile = file], file, dir)
        tb == initTableBounds(s2, file)
        s3 == newIters(tb.s, file, e)
    IN
    IF ~level[file].HasPointKeys
    THEN loadFileLoopAlwaysNext(StepNext(s2), Cur(StepNext(s2)), dir, e)
    ELSE IF tb.r = -1
    THEN IF dir < 0 THEN [s |-> tb.s, ind |-> "noFileLoaded"]
         ELSE loadFileLoopAlwaysNext(StepNext(tb.s), Cur(StepNext(tb.s)), dir, e)
    ELSE IF tb.r = 1 THEN [s |-> tb.s, ind |-> "noFileLoaded"]
    ELSE IF s3.err # NoErr THEN [s |-> s3, ind |-> "noFileLoaded"]
    ELSE [s |-> s3, ind |-> "newFileLoaded"]

\* The loop of loadFile that gives up on every file outside the bounds,
\* whatever the direction.
RECURSIVE loadFileLoopGivesUp(_, _, _, _)
loadFileLoopGivesUp(s, file, dir, e) ==
  IF file = 0 THEN [s |-> [s EXCEPT !.iterFile = file], ind |-> "noFileLoaded"]
  ELSE
    LET s2 == maybeTriggerCombinedIteration([s EXCEPT !.iterFile = file], file, dir)
        tb == initTableBounds(s2, file)
        s3 == newIters(tb.s, file, e)
    IN
    IF ~level[file].HasPointKeys
    THEN IF dir = 1
         THEN loadFileLoopGivesUp(StepNext(s2), Cur(StepNext(s2)), dir, e)
         ELSE loadFileLoopGivesUp(StepPrev(s2), Cur(StepPrev(s2)), dir, e)
    ELSE IF tb.r # 0 THEN [s |-> tb.s, ind |-> "noFileLoaded"]
    ELSE IF s3.err # NoErr THEN [s |-> s3, ind |-> "noFileLoaded"]
    ELSE [s |-> s3, ind |-> "newFileLoaded"]

\* The loop of loadFile, entered after the previous file was closed.
RECURSIVE loadFileLoop(_, _, _, _)
loadFileLoop(s, file, dir, e) ==
  IF file = 0 THEN [s |-> [s EXCEPT !.iterFile = file], ind |-> "noFileLoaded"]
  ELSE
    Bind(maybeTriggerCombinedIteration([s EXCEPT !.iterFile = file], file, dir), LAMBDA s2 :
    IF ~level[file].HasPointKeys
    THEN IF dir = 1
         THEN loadFileLoop(StepNext(s2), Cur(StepNext(s2)), dir, e)
         ELSE loadFileLoop(StepPrev(s2), Cur(StepPrev(s2)), dir, e)
    ELSE
      Bind(initTableBounds(s2, file), LAMBDA tb :
      IF tb.r = -1
      THEN IF dir < 0 THEN [s |-> tb.s, ind |-> "noFileLoaded"]
           ELSE loadFileLoop(StepNext(tb.s), Cur(StepNext(tb.s)), dir, e)
      ELSE IF tb.r = 1
      THEN IF dir > 0 THEN [s |-> tb.s, ind |-> "noFileLoaded"]
           ELSE loadFileLoop(StepPrev(tb.s), Cur(StepPrev(tb.s)), dir, e)
      ELSE
        Bind(newIters(tb.s, file, e), LAMBDA s3 :
        IF s3.err # NoErr THEN [s |-> s3, ind |-> "noFileLoaded"]
        ELSE [s |-> s3, ind |-> "newFileLoaded"])))

\* loadFile that opens the new file without closing the iterators of the
\* file it leaves.
loadFileKeepsOpen(s, file, dir, e) ==
  LET s0 == [s EXCEPT !.smallestBoundary = FALSE, !.largestBoundary = FALSE] IN
  IF s0.iterFile = file /\ s0.err # NoErr
  THEN [s |-> s0, ind |-> "noFileLoaded"]
  ELSE IF s0.iterFile = file /\ s0.iter.file # 0
  THEN [s |-> maybeTriggerCombinedIteration(
                IF hasSlot THEN [s0 EXCEPT !.slot = s0.rangeDelIterCopy] ELSE s0,
                file, dir),
        ind |-> "fileAlreadyLoaded"]
  ELSE loadFileLoop(s0, file, dir, e)

\* loadFile that sets the slot to nil when it finds the file loaded.
loadFileDropsSlot(s, file, dir, e) ==
  LET s0 == [s EXCEPT !.smallestBoundary = FALSE, !.largestBoundary = FALSE] IN
  IF s0.iterFile = file /\ s0.err # NoErr
  THEN [s |-> s0, ind |-> "noFileLoaded"]
  ELSE IF s0.iterFile = file /\ s0.iter.file # 0
  THEN [s |-> maybeTriggerCombinedIteration(
                IF hasSlot THEN [s0 EXCEPT !.slot = 0] ELSE s0, file, dir),
        ind |-> "fileAlreadyLoaded"]
  ELSE
    Bind(Close(s0, e), LAMBDA s1 :
    IF s1.err # NoErr THEN [s |-> s1, ind |-> "noFileLoaded"]
    ELSE loadFileLoop(s1, file, dir, e))

\* loadFile that does not look at the range keys of a file that is already
\* loaded.
loadFileSkipsTrigger(s, file, dir, e) ==
  LET s0 == [s EXCEPT !.smallestBoundary = FALSE, !.largestBoundary = FALSE] IN
  IF s0.iterFile = file /\ s0.err # NoErr
  THEN [s |-> s0, ind |-> "noFileLoaded"]
  ELSE IF s0.iterFile = file /\ s0.iter.file # 0
  THEN [s |-> IF hasSlot THEN [s0 EXCEPT !.slot = s0.rangeDelIterCopy] ELSE s0,
        ind |-> "fileAlreadyLoaded"]
  ELSE
    LET s1 == Close(s0, e) IN
    IF s1.err # NoErr THEN [s |-> s1, ind |-> "noFileLoaded"]
    ELSE loadFileLoop(s1, file, dir, e)

loadFile(s, file, dir, e) ==
  LET s0 == [s EXCEPT !.smallestBoundary = FALSE, !.largestBoundary = FALSE] IN
  IF s0.iterFile = file /\ s0.err # NoErr
  THEN [s |-> s0, ind |-> "noFileLoaded"]
  ELSE IF s0.iterFile = file /\ s0.iter.file # 0
  THEN [s |-> maybeTriggerCombinedIteration(
                IF hasSlot THEN [s0 EXCEPT !.slot = s0.rangeDelIterCopy] ELSE s0,
                file, dir),
        ind |-> "fileAlreadyLoaded"]
  ELSE
    Bind(Close(s0, e), LAMBDA s1 :
    IF s1.err # NoErr THEN [s |-> s1, ind |-> "noFileLoaded"]
    ELSE loadFileLoop(s1, file, dir, e))

\* verify: the key is returned unchanged; the log records a bound violation
\* that an invariants build reports as fatal.  isSmallest/isLargest say
\* whether kv is the pointer held by l.smallestBoundary/l.largestBoundary.
verify(s, kv) ==
  LET isSmallest == IsSynthetic(kv) /\ s.smallestBoundary
      isLargest == IsSynthetic(kv) /\ s.largestBoundary
      bad == /\ ~IsNil(kv)
             /\ \/ s.lower # Nil /\ ~isSmallest /\ kv.UserKey < s.lower
                \/ s.upper # Nil /\ ~isLargest /\ kv.UserKey > s.upper
  IN  [s |-> [s EXCEPT !.boundFatal = @ \/ bad], kv |-> kv]

\* A result of the inner iterator stored back in the struct.
WithIter(s, r) == [s EXCEPT !.iter = r.it]

\* skipEmptyFileForward that pauses on the smallest point key of the file
\* in place of the largest.
RECURSIVE skipEmptyFileForwardSmallest(_, _)
skipEmptyFileForwardSmallest(s, e) ==
  IF s.iter.err # NoErr THEN [s |-> s, kv |-> NilKV]
  ELSE IF hasSlot /\ s.tableUpper # Nil
  THEN LET s1 == [s EXCEPT !.exhaustedDir = 1] IN
       IF s1.slot # 0
       THEN LET s2 == [makeSyntheticBoundary(s1, s1.tableUpper) EXCEPT !.largestBoundary = TRUE]
            IN  [s |-> s2, kv |-> s2.syntheticBoundary]
       ELSE [s |-> s1, kv |-> NilKV]
  ELSE IF hasSlot /\ s.slot # 0
  THEN LET s2 == [makeSyntheticBoundary(s, level[s.iterFile].SmallestPointKey)
                    EXCEPT !.largestBoundary = TRUE]
       IN  [s |-> s2, kv |-> s2.syntheticBoundary]
  ELSE
    LET lf == loadFile(StepNext(s), Cur(StepNext(s)), 1, e) IN
    IF lf.ind = "noFileLoaded"
    THEN [s |-> [lf.s EXCEPT !.exhaustedDir = 1], kv |-> NilKV]
    ELSE LET r == Inner(e, lf.s.iter, ItFirst(lf.s.iter)) IN
         IF r.key # Nil THEN [s |-> WithIter(lf.s, r), kv |-> RealKV(r.key)]
         ELSE skipEmptyFileForwardSmallest(WithIter(lf.s, r), e)

\* skipEmptyFileForward that stops at a file whenever the iterator has an
\* upper bound, also when the bound lies beyond the file.
RECURSIVE skipEmptyFileForwardIterUpper(_, _)
skipEmptyFileForwardIterUpper(s, e) ==
  IF s.iter.err # NoErr THEN [s |-> s, kv |-> NilKV]
  ELSE IF hasSlot /\ s.upper # Nil
  THEN LET s1 == [s EXCEPT !.exhaustedDir = 1] IN
       IF s1.slot # 0
       THEN LET s2 == [makeSyntheticBoundary(s1, s1.upper) EXCEPT !.largestBoundary = TRUE]
            IN  [s |-> s2, kv |-> s2.syntheticBoundary]
       ELSE [s |-> s1, kv |-> NilKV]
  ELSE IF hasSlot /\ s.slot # 0
  THEN LET s2 == [makeSyntheticBoundary(s, level[s.iterFile].LargestPointKey)
                    EXCEPT !.largestBoundary = TRUE]
       IN  [s |-> s2, kv |-> s2.syntheticBoundary]
  ELSE
    LET lf == loadFile(StepNext(s), Cur(StepNext(s)), 1, e)
        r == Inner(e, lf.s.iter, ItFirst(lf.s.iter))
    IN
    IF lf.ind = "noFileLoaded"
    THEN [s |-> [lf.s EXCEPT !.exhaustedDir = 1], kv |-> NilKV]
    ELSE IF r.key # Nil THEN [s |-> WithIter(lf.s, r), kv |-> RealKV(r.key)]
         ELSE skipEmptyFileForwardIterUpper(WithIter(lf.s, r), e)

RECURSIVE skipEmptyFileForward(_, _)
skipEmptyFileForward(s, e) ==
  IF s.iter.err # NoErr THEN [s |-> s, kv |-> NilKV]
  ELSE IF hasSlot /\ s.tableUpper # Nil
  THEN LET s1 == [s EXCEPT !.exhaustedDir = 1] IN
       IF s1.slot # 0
       THEN LET s2 == [makeSyntheticBoundary(s1, s1.tableUpper) EXCEPT !.largestBoundary = TRUE]
            IN  [s |-> s2, kv |-> s2.syntheticBoundary]
       ELSE [s |-> s1, kv |-> NilKV]
  ELSE IF hasSlot /\ s.slot # 0
  THEN LET s2 == [makeSyntheticBoundary(s, level[s.iterFile].LargestPointKey)
                    EXCEPT !.largestBoundary = TRUE]
       IN  [s |-> s2, kv |-> s2.syntheticBoundary]
  ELSE
    Bind(loadFile(StepNext(s), Cur(StepNext(s)), 1, e), LAMBDA lf :
    IF lf.ind = "noFileLoaded"
    THEN [s |-> [lf.s EXCEPT !.exhaustedDir = 1], kv |-> NilKV]
    ELSE Bind(Inner(e, lf.s.iter, ItFirst(lf.s.iter)), LAMBDA r :
         IF r.key # Nil THEN [s |-> WithIter(lf.s, r), kv |-> RealKV(r.key)]
         ELSE skipEmptyFileForward(WithIter(lf.s, r), e)))

RECURSIVE skipEmptyFileBackward(_, _)
skipEmptyFileBackward(s, e) ==
  IF s.iter.err # NoErr THEN [s |-> s, kv |-> NilKV]
  ELSE IF hasSlot /\ s.tableLower # Nil
  THEN LET s1 == [s EXCEPT !.exhaustedDir = -1] IN
       IF s1.slot # 0
       THEN LET s2 == [makeSyntheticBoundary(s1, s1.tableLower) EXCEPT !.smallestBoundary = TRUE]
            IN  [s |-> s2, kv |-> s2.syntheticBoundary]
       ELSE [s |-> s1, kv |-> NilKV]
  ELSE IF hasSlot /\ s.slot # 0
  THEN LET s2 == [makeSyntheticBoundary(s, level[s.iterFile].SmallestPointKey)
                    EXCEPT !.smallestBoundary = TRUE]
       IN  [s |-> s2, kv |-> s2.syntheticBoundary]
  ELSE
    Bind(loadFile(StepPrev(s), Cur(StepPrev(s)), -1, e), LAMBDA lf :
    IF lf.ind = "noFileLoaded"
    THEN [s |-> [lf.s EXCEPT !.exhaustedDir = -1], kv |-> NilKV]
    ELSE Bind(Inner(e, lf.s.iter, ItLast(lf.s.iter)), LAMBDA r :
         IF r.key # Nil THEN [s |-> WithIter(lf.s, r), kv |-> RealKV(r.key)]
         ELSE skipEmptyFileBackward(WithIter(lf.s, r), e)))

\* An inner result r returned through verify, or the forward/backward skip.
ReturnOrSkipForward(s, r, e) ==
  IF r.key # Nil THEN verify(WithIter(s, r), RealKV(r.key))
  ELSE Bind(skipEmptyFileForward(WithIter(s, r), e), LAMBDA k : verify(k.s, k.kv))
ReturnOrSkipBackward(s, r, e) ==
  IF r.key # Nil THEN verify(WithIter(s, r), RealKV(r.key))
  ELSE Bind(skipEmptyFileBackward(WithIter(s, r), e), LAMBDA k : verify(k.s, k.kv))

\* SeekGE that adds RelativeSeek to the caller's flags for the file search.
SeekGEAddsRelative(s, key, flags, e) ==
  Bind(findFileGE([s EXCEPT !.err = NoErr, !.exhaustedDir = 0], key,
                  Flags(flags.TrySeekUsingNext, TRUE)), LAMBDA ff :
  Bind(loadFile(ff.s, ff.m, 1, e), LAMBDA lf :
  IF lf.ind = "noFileLoaded"
  THEN [s |-> [lf.s EXCEPT !.exhaustedDir = 1], kv |-> NilKV]
  ELSE ReturnOrSkipForward(lf.s,
         Inner(e, lf.s.iter,
               ItSeekGE(lf.s.iter, key, flags.TrySeekUsingNext /\ lf.ind # "newFileLoaded")),
         e)))

SeekGE(s, key, flags, e) ==
  Bind(findFileGE([s EXCEPT !.err = NoErr, !.exhaustedDir = 0], key, flags), LAMBDA ff :
  Bind(loadFile(ff.s, ff.m, 1, e), LAMBDA lf :
  IF lf.ind = "noFileLoaded"
  THEN [s |-> [lf.s EXCEPT !.exhaustedDir = 1], kv |-> NilKV]
  ELSE ReturnOrSkipForward(lf.s,
         Inner(e, lf.s.iter,
               ItSeekGE(lf.s.iter, key, flags.TrySeekUsingNext /\ lf.ind # "newFileLoaded")),
         e)))

\* SeekPrefixGE that returns null whenever the file has no key at or after
\* the seek key, without comparing the prefix with the largest key of the
\* file.
SeekPrefixGEStops(s, prefix, key, flags, e) ==
  LET s0 == [s EXCEPT !.err = NoErr, !.exhaustedDir = 0]
      ff == findFileGE(s0, key, flags)
      lf == loadFile(ff.s, ff.m, 1, e)
  IN
  IF lf.ind = "noFileLoaded"
  THEN [s |-> [lf.s EXCEPT !.exhaustedDir = 1], kv |-> NilKV]
  ELSE
    LET r == Inner(e, lf.s.iter,
                   ItSeekPrefixGE(lf.s.iter, prefix, key,
                                  flags.TrySeekUsingNext /\ lf.ind # "newFileLoaded",
                                  e.bloomHit))
        s1 == WithIter(lf.s, r)
    IN
    IF r.key # Nil THEN verify(s1, RealKV(r.key))
    ELSE IF s1.iter.err # NoErr THEN [s |-> s1, kv |-> NilKV]
    ELSE IF emitSyntheticBoundaries(s1)
    THEN IF s1.tableUpper # Nil
         THEN LET s2 == [makeSyntheticBoundary(s1, s1.tableUpper)
                           EXCEPT !.largestBoundary = TRUE, !.exhaustedDir = 1]
              IN  verify(s2, s2.syntheticBoundary)
         ELSE LET s2 == [makeSyntheticBoundary(s1, level[s1.iterFile].LargestPointKey)
                           EXCEPT !.largestBoundary = TRUE]
              IN  verify(s2, s2.syntheticBoundary)
    ELSE [s |-> [s1 EXCEPT !.exhaustedDir = 1], kv |-> NilKV]

\* SeekPrefixGE that places the synthetic boundary on the upper bound of
\* the iterator whenever one is set, also when it lies beyond the file.
SeekPrefixGEIterUpper(s, prefix, key, flags, e) ==
  LET s0 == [s EXCEPT !.err = NoErr, !.exhaustedDir = 0]
      ff == findFileGE(s0, key, flags)
      lf == loadFile(ff.s, ff.m, 1, e)
      r == Inner(e, lf.s.iter,
                 ItSeekPrefixGE(lf.s.iter, prefix, key,
                                flags.TrySeekUsingNext /\ lf.ind # "newFileLoaded",
                                e.bloomHit))
      s1 == WithIter(lf.s, r)
      up == [makeSyntheticBoundary(s1, s1.upper)
               EXCEPT !.largestBoundary = TRUE, !.exhaustedDir = 1]
      lg == [makeSyntheticBoundary(s1, level[s1.iterFile].LargestPointKey)
               EXCEPT !.largestBoundary = TRUE]
      k == skipEmptyFileForward(s1, e)
  IN
  IF lf.ind = "noFileLoaded"
  THEN [s |-> [lf.s EXCEPT !.exhaustedDir = 1], kv |-> NilKV]
  ELSE IF r.key # Nil THEN verify(s1, RealKV(r.key))
  ELSE IF s1.iter.err # NoErr THEN [s |-> s1, kv |-> NilKV]
  ELSE IF emitSyntheticBoundaries(s1)
  THEN IF s1.upper # Nil THEN verify(up, up.syntheticBoundary)
       ELSE verify(lg, lg.syntheticBoundary)
  ELSE IF prefix < Split(level[s1.iterFile].LargestPointKey)
  THEN [s |-> [s1 EXCEPT !.exhaustedDir = 1], kv |-> NilKV]
  ELSE verify(k.s, k.kv)

SeekPrefixGE(s, prefix, key, flags, e) ==
  Bind(findFileGE([s EXCEPT !.err = NoErr, !.exhaustedDir = 0], key, flags), LAMBDA ff :
  Bind(loadFile(ff.s, ff.m, 1, e), LAMBDA lf :
  IF lf.ind = "noFileLoaded"
  THEN [s |-> [lf.s EXCEPT !.exhaustedDir = 1], kv |-> NilKV]
  ELSE
    Bind(Inner(e, lf.s.iter,
               ItSeekPrefixGE(lf.s.iter, prefix, key,
                              flags.TrySeekUsingNext /\ lf.ind # "newFileLoaded",
                              e.bloomHit)), LAMBDA r :
    Bind(WithIter(lf.s, r), LAMBDA s1 :
    IF r.key # Nil THEN verify(s1, RealKV(r.key))
    ELSE IF s1.iter.err # NoErr THEN [s |-> s1, kv |-> NilKV]
    ELSE IF emitSyntheticBoundaries(s1)
    THEN IF s1.tableUpper # Nil
         THEN Bind([makeSyntheticBoundary(s1, s1.tableUpper)
                      EXCEPT !.largestBoundary = TRUE, !.exhaustedDir = 1],
                   LAMBDA s2 : verify(s2, s2.syntheticBoundary))
         ELSE Bind([makeSyntheticBoundary(s1, level[s1.iterFile].LargestPointKey)
                      EXCEPT !.largestBoundary = TRUE],
                   LAMBDA s2 : verify(s2, s2.syntheticBoundary))
    ELSE IF prefix < Split(level[s1.iterFile].LargestPointKey)
    THEN [s |-> [s1 EXCEPT !.exhaustedDir = 1], kv |-> NilKV]
    ELSE Bind(skipEmptyFileForward(s1, e), LAMBDA k : verify(k.s, k.kv))))))

SeekLT(s, key, flags, e) ==
  Bind(findFileLT([s EXCEPT !.err = NoErr, !.exhaustedDir = 0], key, flags), LAMBDA ff :
  Bind(loadFile(ff.s, ff.m, -1, e), LAMBDA lf :
  IF lf.ind = "noFileLoaded"
  THEN [s |-> [lf.s EXCEPT !.exhaustedDir = -1], kv |-> NilKV]
  ELSE ReturnOrSkipBackward(lf.s, Inner(e, lf.s.iter, ItSeekLT(lf.s.iter, key)), e)))

First(s, e) ==
  Bind([s EXCEPT !.err = NoErr, !.exhaustedDir = 0, !.files = FilesFirst], LAMBDA s1 :
  Bind(loadFile(s1, Cur(s1), 1, e), LAMBDA lf :
  IF lf.ind = "noFileLoaded"
  THEN [s |-> [lf.s EXCEPT !.exhaustedDir = 1], kv |-> NilKV]
  ELSE ReturnOrSkipForward(lf.s, Inner(e, lf.s.iter, ItFirst(lf.s.iter)), e)))

Last(s, e) ==
  Bind([s EXCEPT !.err = NoErr, !.exhaustedDir = 0, !.files = FilesLast], LAMBDA s1 :
  Bind(loadFile(s1, Cur(s1), -1, e), LAMBDA lf :
  IF lf.ind = "noFileLoaded"
  THEN [s |-> [lf.s EXCEPT !.exhaustedDir = -1], kv |-> NilKV]
  ELSE ReturnOrSkipBackward(lf.s, Inner(e, lf.s.iter, ItLast(lf.s.iter)), e)))
\* Next that leaves a pause on a largest boundary without l.files.Next():
\* it loads the file of the cursor again.
NextReloadsFile(s, e) ==
  IF s.exhaustedDir = -1
  THEN IF s.lower # Nil THEN SeekGE(s, s.lower, SeekGEFlagsNone, e) ELSE First(s, e)
  ELSE IF s.err # NoErr \/ s.iter.file = 0 THEN [s |-> s, kv |-> NilKV]
  ELSE IF s.largestBoundary
  THEN IF s.tableUpper # Nil
       THEN [s |-> [s EXCEPT !.slot = IF hasSlot THEN 0 ELSE @, !.exhaustedDir = 1],
             kv |-> NilKV]
       ELSE LET lf == loadFile(s, Cur(s), 1, e) IN
            IF lf.ind # "noFileLoaded"
            THEN ReturnOrSkipForward(lf.s, Inner(e, lf.s.iter, ItFirst(lf.s.iter)), e)
            ELSE [s |-> [lf.s EXCEPT !.exhaustedDir = 1], kv |-> NilKV]
  ELSE LET s1 == [s EXCEPT !.smallestBoundary = FALSE] IN
       ReturnOrSkipForward(s1, Inner(e, s1.iter, ItNext(s1.iter)), e)

\* Next that treats every pause on a largest boundary as a pause on the
\* upper bound: it never moves to the following file.
NextStopsAtPause(s, e) ==
  IF s.exhaustedDir = -1
  THEN IF s.lower # Nil THEN SeekGE(s, s.lower, SeekGEFlagsNone, e) ELSE First(s, e)
  ELSE IF s.err # NoErr \/ s.iter.file = 0 THEN [s |-> s, kv |-> NilKV]
  ELSE IF s.largestBoundary
  THEN [s |-> [s EXCEPT !.slot = IF hasSlot THEN 0 ELSE @, !.exhaustedDir = 1],
        kv |-> NilKV]
  ELSE LET s1 == [s EXCEPT !.smallestBoundary = FALSE] IN
       ReturnOrSkipForward(s1, Inner(e, s1.iter, ItNext(s1.iter)), e)

\* Next that clears the boundary register when it stays on a pause at the
\* upper bound.
NextClearsBoundary(s, e) ==
  IF s.exhaustedDir = -1
  THEN IF s.lower # Nil THEN SeekGE(s, s.lower, SeekGEFlagsNone, e) ELSE First(s, e)
  ELSE IF s.err # NoErr \/ s.iter.file = 0 THEN [s |-> s, kv |-> NilKV]
  ELSE IF s.largestBoundary
  THEN IF s.tableUpper # Nil
       THEN [s |-> [s EXCEPT !.slot = IF hasSlot THEN 0 ELSE @, !.exhaustedDir = 1,
                             !.largestBoundary = FALSE],
             kv |-> NilKV]
       ELSE LET lf == loadFile(StepNext(s), Cur(StepNext(s)), 1, e) IN
            IF lf.ind # "noFileLoaded"
            THEN ReturnOrSkipForward(lf.s, Inner(e, lf.s.iter, ItFirst(lf.s.iter)), e)
            ELSE [s |-> [lf.s EXCEPT !.exhaustedDir = 1], kv |-> NilKV]
  ELSE LET s1 == [s EXCEPT !.smallestBoundary = FALSE] IN
       ReturnOrSkipForward(s1, Inner(e, s1.iter, ItNext(s1.iter)), e)

Next(s, e) ==
  IF s.exhaustedDir = -1
  THEN IF s.lower # Nil THEN SeekGE(s, s.lower, SeekGEFlagsNone, e) ELSE First(s, e)
  ELSE IF s.err # NoErr \/ s.iter.file = 0 THEN [s |-> s, kv |-> NilKV]
  ELSE IF s.largestBoundary
  THEN IF s.tableUpper # Nil
       THEN [s |-> [s EXCEPT !.slot = IF hasSlot THEN 0 ELSE @, !.exhaustedDir = 1],
             kv |-> NilKV]
       ELSE Bind(loadFile(StepNext(s), Cur(StepNext(s)), 1, e), LAMBDA lf :
            IF lf.ind # "noFileLoaded"
            THEN ReturnOrSkipForward(lf.s, Inner(e, lf.s.iter, ItFirst(lf.s.iter)), e)
            ELSE [s |-> [lf.s EXCEPT !.exhaustedDir = 1], kv |-> NilKV])
  ELSE LET s1 == [s EXCEPT !.smallestBoundary = FALSE] IN
       ReturnOrSkipForward(s1, Inner(e, s1.iter, ItNext(s1.iter)), e)

\* The tail of NextPrefix: seek the manifest cursor and the new file.
NextPrefixSeek(s, succKey, e) ==
  Bind(findFileGE(s, succKey, Flags(TRUE, TRUE)), LAMBDA ff :
  Bind(loadFile(ff.s, ff.m, 1, e), LAMBDA lf :
  IF lf.ind # "noFileLoaded"
  THEN ReturnOrSkipForward(lf.s, Inner(e, lf.s.iter, ItSeekGE(lf.s.iter, succKey, FALSE)), e)
  ELSE [s |-> [lf.s EXCEPT !.exhaustedDir = 1], kv |-> NilKV]))

NextPrefix(s, succKey, e) ==
  IF s.err # NoErr \/ s.iter.file = 0 THEN [s |-> s, kv |-> NilKV]
  ELSE IF s.largestBoundary
  THEN IF s.tableUpper # Nil
       THEN [s |-> [s EXCEPT !.slot = IF hasSlot THEN 0 ELSE @], kv |-> NilKV]
       ELSE NextPrefixSeek(s, succKey, e)
  ELSE Bind(Inner(e, s.iter, ItNextPrefix(s.iter, succKey)), LAMBDA r :
       Bind(WithIter([s EXCEPT !.smallestBoundary = FALSE], r), LAMBDA s2 :
       IF r.key # Nil THEN verify(s2, RealKV(r.key))
       ELSE IF s2.iter.err # NoErr THEN [s |-> s2, kv |-> NilKV]
       ELSE NextPrefixSeek(s2, succKey, e)))

\* Prev that leaves the largest-boundary register alone when it steps the
\* point iterator back.
PrevKeepsBoundary(s, e) ==
  IF s.exhaustedDir = 1
  THEN IF s.upper # Nil THEN SeekLT(s, s.upper, Flags(FALSE, FALSE), e) ELSE Last(s, e)
  ELSE IF s.err # NoErr \/ s.iter.file = 0 THEN [s |-> s, kv |-> NilKV]
  ELSE IF s.smallestBoundary
  THEN IF s.tableLower # Nil
       THEN [s |-> [s EXCEPT !.slot = IF hasSlot THEN 0 ELSE @, !.exhaustedDir = -1],
             kv |-> NilKV]
       ELSE LET lf == loadFile(StepPrev(s), Cur(StepPrev(s)), -1, e) IN
            IF lf.ind # "noFileLoaded"
            THEN ReturnOrSkipBackward(lf.s, Inner(e, lf.s.iter, ItLast(lf.s.iter)), e)
            ELSE [s |-> [lf.s EXCEPT !.exhaustedDir = -1], kv |-> NilKV]
  ELSE ReturnOrSkipBackward(s, Inner(e, s.iter, ItPrev(s.iter)), e)

\* Prev without the restart from the upper extreme after forward
\* exhaustion.
PrevNoRestart(s, e) ==
  IF s.err # NoErr \/ s.iter.file = 0 THEN [s |-> s, kv |-> NilKV]
  ELSE IF s.smallestBoundary
  THEN IF s.tableLower # Nil
       THEN [s |-> [s EXCEPT !.slot = IF hasSlot THEN 0 ELSE @, !.exhaustedDir = -1],
             kv |-> NilKV]
       ELSE LET lf == loadFile(StepPrev(s), Cur(StepPrev(s)), -1, e) IN
            IF lf.ind # "noFileLoaded"
            THEN ReturnOrSkipBackward(lf.s, Inner(e, lf.s.iter, ItLast(lf.s.iter)), e)
            ELSE [s |-> [lf.s EXCEPT !.exhaustedDir = -1], kv |-> NilKV]
  ELSE LET s1 == [s EXCEPT !.largestBoundary = FALSE] IN
       ReturnOrSkipBackward(s1, Inner(e, s1.iter, ItPrev(s1.iter)), e)

\* Prev with l.files.Last() in place of l.files.Prev() when it leaves a
\* pause on the smallest boundary of a file.
PrevFromLast(s, e) ==
  IF s.exhaustedDir = 1
  THEN IF s.upper # Nil THEN SeekLT(s, s.upper, Flags(FALSE, FALSE), e) ELSE Last(s, e)
  ELSE IF s.err # NoErr \/ s.iter.file = 0 THEN [s |-> s, kv |-> NilKV]
  ELSE IF s.smallestBoundary
  THEN IF s.tableLower # Nil
       THEN [s |-> [s EXCEPT !.slot = IF hasSlot THEN 0 ELSE @, !.exhaustedDir = -1],
             kv |-> NilKV]
       ELSE LET s1 == [s EXCEPT !.files = FilesLast]
                lf == loadFile(s1, Cur(s1), -1, e) IN
            IF lf.ind # "noFileLoaded"
            THEN ReturnOrSkipBackward(lf.s, Inner(e, lf.s.iter, ItLast(lf.s.iter)), e)
            ELSE [s |-> [lf.s EXCEPT !.exhaustedDir = -1], kv |-> NilKV]
  ELSE LET s1 == [s EXCEPT !.largestBoundary = FALSE] IN
       ReturnOrSkipBackward(s1, Inner(e, s1.iter, ItPrev(s1.iter)), e)

Prev(s, e) ==
  IF s.exhaustedDir = 1
  THEN IF s.upper # Nil THEN SeekLT(s, s.upper, Flags(FALSE, FALSE), e) ELSE Last(s, e)
  ELSE IF s.err # NoErr \/ s.iter.file = 0 THEN [s |-> s, kv |-> NilKV]
  ELSE IF s.smallestBoundary
  THEN IF s.tableLower # Nil
       THEN [s |-> [s EXCEPT !.slot = IF hasSlot THEN 0 ELSE @, !.exhaustedDir = -1],
             kv |-> NilKV]
       ELSE Bind(loadFile(StepPrev(s), Cur(StepPrev(s)), -1, e), LAMBDA lf :
            IF lf.ind # "noFileLoaded"
            THEN ReturnOrSkipBackward(lf.s, Inner(e, lf.s.iter, ItLast(lf.s.iter)), e)
            ELSE [s |-> [lf.s EXCEPT !.exhaustedDir = -1], kv |-> NilKV])
  ELSE LET s1 == [s EXCEPT !.largestBoundary = FALSE] IN
       ReturnOrSkipBackward(s1, Inner(e, s1.iter, ItPrev(s1.iter)), e)

\* SetBounds that keeps the file open when it no longer overlaps the bounds.
SetBoundsKeepsFile(s, lower, upper, e) ==
  LET s0 == [s EXCEPT !.lower = lower, !.upper = upper]
      tb == initTableBounds(s0, s0.iterFile)
  IN
  IF s0.iter.file = 0 THEN s0
  ELSE [tb.s EXCEPT !.iter = ItSetBounds(@, tb.s.tableLower, tb.s.tableUpper)]

SetBounds(s, lower, upper, e) ==
  LET s0 == [s EXCEPT !.lower = lower, !.upper = upper] IN
  IF s0.iter.file = 0 THEN s0
  ELSE Bind(initTableBounds(s0, s0.iterFile), LAMBDA tb :
       IF tb.r # 0 THEN Close(tb.s, e)
       ELSE [tb.s EXCEPT !.iter = ItSetBounds(@, tb.s.tableLower, tb.s.tableUpper)])

\* Error that reports the error of the point iterator only.
ErrorFromIter(li) == li.iter.err

\* levelIter.Error
Error(li) == IF li.err # NoErr \/ li.iter.file = 0 THEN li.err ELSE li.iter.err
\* ------------------------------------------------------------ the caller
\* The caller's view of where the iterator is: the direction of the last
\* positioning calls (dir); going forward, the least user key the iterator
\* has not moved beyond, so that a seek of a key at or after it may pass
\* TrySeekUsingNext (pos; going backward, a key at or after the position);
\* whether SeekPrefixGE or NextPrefix started the walk (prefix); and, for a
\* walk begun at an extreme of the bounds and continued with Next (Prev)
\* only, the real keys returned so far (seen) and whether the walk reached
\* null (done).  For a walk that is not a prefix walk, edge separates the
\* keys the walk has passed from those it has not: going forward the keys
\* below edge are passed, going backward those at or above (Nil while the
\* caller has not seen a real key since it turned around).
NoFatal == [assertFail |-> FALSE, boundFatal |-> FALSE]
NoWalk == [dir |-> "none", pos |-> Nil, prefix |-> FALSE, full |-> FALSE,
           done |-> FALSE, seen |-> <<>>, edge |-> Nil]
EdgeAfter(dir, kv, edge) ==
  IF IsReal(kv) THEN (IF dir = "fwd" THEN kv.UserKey + 1 ELSE kv.UserKey) ELSE edge
StartWalk(dir, pos, prefix, full, kv, edge) ==
  [dir |-> dir, pos |-> pos, prefix |-> prefix, full |-> full,
   done |-> full /\ IsNil(kv),
   seen |-> IF full /\ IsReal(kv) THEN <<kv.UserKey>> ELSE <<>>,
   edge |-> IF prefix THEN Nil ELSE EdgeAfter(dir, kv, edge)]
\* prev is the key-value the call before returned: a Next that leaves a
\* pause on a boundary moves beyond the user key of the boundary.
ContinueWalk(w, kv, prev) ==
  [w EXCEPT !.edge = IF w.prefix THEN Nil ELSE EdgeAfter(w.dir, kv, @),
            !.pos = IF w.dir = "fwd"
                    THEN IF IsReal(kv) THEN kv.UserKey
                         ELSE Max(IF IsSynthetic(prev) THEN prev.UserKey + 1 ELSE w.pos,
                                  IF w.prefix \/ w.edge = Nil THEN MaxKey + 1 ELSE w.edge)
                    ELSE IF ~IsNil(kv) THEN kv.UserKey ELSE Nil,
            !.done = @ \/ (w.full /\ IsNil(kv)),
            !.seen = IF w.full /\ ~w.done /\ IsReal(kv) THEN Append(@, kv.UserKey) ELSE @]

\* The walk after call name(key, flags) returned kv in environment e and
\* left the struct li (ret is still what the call before returned).
WalkAfter(w, name, key, flags, e, kv, li) ==
  IF e \notin {EnvOK, BloomMiss} \/ Error(li) # NoErr THEN NoWalk
  ELSE IF name = "First"
  THEN StartWalk("fwd", IF IsReal(kv) THEN kv.UserKey ELSE 0, FALSE, TRUE, kv, 0)
  ELSE IF name = "SeekGE"
  THEN StartWalk("fwd", IF IsReal(kv) THEN kv.UserKey ELSE key, FALSE,
                 li.lower # Nil /\ key = li.lower /\ flags = SeekGEFlagsNone, kv, key)
  ELSE IF name = "SeekPrefixGE"
  THEN StartWalk("fwd", IF IsReal(kv) THEN kv.UserKey ELSE key, TRUE, FALSE, kv, Nil)
  ELSE IF name = "Last"
  THEN StartWalk("bwd", IF IsNil(kv) THEN Nil ELSE kv.UserKey, FALSE, TRUE, kv, MaxKey + 1)
  ELSE IF name = "SeekLT"
  THEN StartWalk("bwd", key, FALSE,
                 li.upper # Nil /\ key = li.upper /\ flags = SeekGEFlagsNone, kv, key)
  ELSE IF name = "Next"
  THEN IF w.dir = "fwd"
       THEN IF w.prefix /\ IsNil(kv) THEN NoWalk ELSE ContinueWalk(w, kv, ret)
       ELSE IF w.dir = "bwd" /\ ~IsNil(kv)
       THEN StartWalk("fwd", IF IsReal(kv) THEN kv.UserKey ELSE MaxKey + 1, FALSE, FALSE, kv, Nil)
       ELSE NoWalk
  ELSE IF name = "NextPrefix"
  THEN IF w.dir = "fwd" /\ ~IsNil(kv)
       THEN StartWalk("fwd", IF IsReal(kv) THEN kv.UserKey ELSE MaxKey + 1, TRUE, FALSE, kv, Nil)
       ELSE NoWalk
  ELSE IF name = "Prev"
  THEN IF w.dir = "bwd" THEN ContinueWalk(w, kv, ret)
       ELSE IF w.dir = "fwd" /\ ~IsNil(kv)
       THEN StartWalk("bwd", kv.UserKey, FALSE, FALSE, kv, Nil) ELSE NoWalk
  ELSE NoWalk

\* ----------------------------------------------------------------- inputs
\* The bounds handed to newLevelIter and SetBounds: none, a lower bound
\* inside the second slot, an upper bound inside the second slot, or both
\* around it.
BoundPairs ==
  { <<Nil, Nil>>, <<SlotWidth + 1, Nil>>, <<Nil, SlotWidth + 1>>,
    <<1, 2 * SlotWidth + 1>> }

\* The flags the caller may pass to a forward seek of key: the hints are
\* only legal while moving forward to a key at or after the position.
\* RelativeSeek is only offered while it is not a no-op (combined iteration
\* registered and not yet initialized).
RelativeFlagSet == IF hasCombined /\ ~l.initialized THEN {Flags(FALSE, TRUE)} ELSE {}
SeekGEFlagSets(w, key) ==
  {SeekGEFlagsNone} \cup
  (IF w.dir = "fwd" /\ key >= w.pos
   THEN {Flags(TRUE, FALSE)} \cup RelativeFlagSet ELSE {})
SeekLTFlagSets(w, key) ==
  {SeekGEFlagsNone} \cup
  (IF w.dir = "bwd" /\ w.pos # Nil /\ key <= w.pos THEN RelativeFlagSet ELSE {})

\* --------------------------------------------------------------- actions
\* The struct after construction: newLevelIter, then initRangeDel and
\* initCombinedIterState if the caller registers them.
Constructed ==
  /\ \E b \in BoundPairs : l = NewLevelIter(b[1], b[2])
  /\ ret = NilKV
  /\ walk = NoWalk
  /\ fatal = NoFatal

\* The invariant failures after a call that ended with the threaded record s.
FatalAfter(s) ==
  [assertFail |-> fatal.assertFail \/ s.assertFail,
   boundFatal |-> fatal.boundFatal \/ s.boundFatal]

\* The state after call name(key, flags) produced r = [s, kv].
Return(r, name, key, flags, e) ==
  /\ l' = IterOf(r.s)
  /\ ret' = r.kv
  /\ walk' = WalkAfter(walk, name, key, flags, e, r.kv, IterOf(r.s))
  /\ fatal' = FatalAfter(r.s)
  /\ UNCHANGED <<level, hasSlot, hasCombined>>

DoSeekGE(E) ==
  \E key \in Keys, e \in E : \E flags \in SeekGEFlagSets(walk, key) :
    /\ l.lower = Nil \/ key >= l.lower
    /\ Return(SeekGE(Enter(l), key, flags, e), "SeekGE", key, flags, e)

DoSeekPrefixGE(E) ==
  \E key \in Keys, e \in E \cup {BloomMiss} : \E flags \in SeekGEFlagSets(walk, key) :
    /\ l.lower = Nil \/ key >= l.lower
    /\ Return(SeekPrefixGE(Enter(l), Split(key), key, flags, e), "SeekPrefixGE", key, flags, e)

DoSeekLT(E) ==
  \E key \in SentinelKeys, e \in E : \E flags \in SeekLTFlagSets(walk, key) :
    /\ l.upper = Nil \/ key <= l.upper
    /\ Return(SeekLT(Enter(l), key, flags, e), "SeekLT", key, flags, e)

DoFirst(E) ==
  \E e \in E :
    /\ l.lower = Nil
    /\ Return(First(Enter(l), e), "First", Nil, SeekGEFlagsNone, e)

DoLast(E) ==
  \E e \in E :
    /\ l.upper = Nil
    /\ Return(Last(Enter(l), e), "Last", Nil, SeekGEFlagsNone, e)

DoNext(E) ==
  \E e \in E : Return(Next(Enter(l), e), "Next", Nil, SeekGEFlagsNone, e)

DoNextPrefix(E) ==
  \E succKey \in Keys, e \in E :
    /\ walk.dir = "fwd" /\ succKey > walk.pos
    /\ Return(NextPrefix(Enter(l), succKey, e), "NextPrefix", succKey, SeekGEFlagsNone, e)

DoPrev(E) ==
  \E e \in E : Return(Prev(Enter(l), e), "Prev", Nil, SeekGEFlagsNone, e)

DoSetBounds(E) ==
  \E b \in BoundPairs, e \in E :
    /\ l' = IterOf(SetBounds(Enter(l), b[1], b[2], e))
    /\ ret' = NilKV
    /\ walk' = NoWalk
    /\ fatal' = FatalAfter(SetBounds(Enter(l), b[1], b[2], e))
    /\ UNCHANGED <<level, hasSlot, hasCombined>>

DoClose(E) ==
  \E e \in E :
    /\ l' = IterOf(Close(Enter(l), e))
    /\ ret' = NilKV
    /\ walk' = NoWalk
    /\ fatal' = FatalAfter(Close(Enter(l), e))
    /\ UNCHANGED <<level, hasSlot, hasCombined>>

\* The enclosing iterator switches to combined iteration after a call that
\* triggered it.
CombinedInitialized ==
  /\ hasCombined /\ l.triggered /\ ~l.initialized
  /\ l' = [l EXCEPT !.initialized = TRUE]
  /\ UNCHANGED <<level, hasSlot, hasCombined, ret, walk, fatal>>

\* ------------------------------------------------------ specifications
\* Slotted levels with at most one file that is not two plain point keys;
\* no external call fails.
PlainSlot(i) == TwoPoints(i * SlotWidth)
OneSpecial(lv) ==
  Cardinality({ i \in 1..Len(lv) : \A j \in 0..(NumSlots - 1) : lv[i] # PlainSlot(j) }) <= 1
Levels == { lv \in SlottedFrom(0) : Len(lv) = NumSlots /\ OneSpecial(lv) }
HasRangeKeyFile(lv) == \E i \in 1..Len(lv) : lv[i].HasRangeKeys
HasTombstone(lv) == \E i \in 1..Len(lv) : lv[i].rangeDel

\* A slot is registered or not when the level has a file with range
\* deletions; without such a file a registered slot stays nil and changes
\* nothing.
Init ==
  /\ level \in Levels
  /\ hasSlot \in {FALSE, HasTombstone(level)}
  /\ hasCombined = HasRangeKeyFile(level)
  /\ Constructed

Step ==
  \/ DoSeekGE({EnvOK}) \/ DoSeekPrefixGE({EnvOK}) \/ DoSeekLT({EnvOK})
  \/ DoFirst({EnvOK}) \/ DoLast({EnvOK})
  \/ DoNext({EnvOK}) \/ DoNextPrefix({EnvOK}) \/ DoPrev({EnvOK})
  \/ DoSetBounds({EnvOK}) \/ DoClose({EnvOK})
  \/ CombinedInitialized

Spec == Init /\ [][Step]_vars

\* Slotted levels with one file with range keys among plain files, the file
\* before it plain or a point key with a tombstone reaching to it; combined
\* iteration is registered, no range deletion slot; no external call fails.
RangeLevels ==
  { lv \in SlottedFrom(0) :
      /\ Len(lv) = NumSlots
      /\ \E i \in 1..NumSlots :
           /\ lv[i].HasRangeKeys
           /\ \A j \in (1..NumSlots) \ {i} :
                \/ lv[j] = PlainSlot(j - 1)
                \/ j = i - 1 /\ lv[j] = PointTailTombstone((j - 1) * SlotWidth) }

InitRange ==
  /\ level \in RangeLevels
  /\ hasSlot = FALSE
  /\ hasCombined = TRUE
  /\ Constructed

SpecRange == InitRange /\ [][Step]_vars

\* Wide levels of one-key files, with or without a gap: without range
\* deletions, with one in the second file, or with one in the file of the
\* first key of the second prefix that reaches over a gap to the last key
\* of that prefix; no combined iteration, no failing call.
WideLevels ==
  { WideFrom(0, gap, tomb, 0) : gap \in {Nil} \cup (2..(WideFiles - 2)), tomb \in {Nil, 1} }
  \cup { WideFrom(0, PrefixWidth + 1, PrefixWidth, 2) }
WideBoundPairs == { <<Nil, Nil>> } \cup { <<Nil, up>> : up \in 1..WideFiles }

InitWide ==
  /\ level \in WideLevels
  /\ hasSlot \in {FALSE, HasTombstone(level)}
  /\ hasCombined = FALSE
  /\ \E b \in WideBoundPairs : l = NewLevelIter(b[1], b[2])
  /\ ret = NilKV
  /\ walk = NoWalk
  /\ fatal = NoFatal

StepWide ==
  \/ DoSeekGE({EnvOK}) \/ DoSeekPrefixGE({EnvOK}) \/ DoSeekLT({EnvOK})
  \/ DoFirst({EnvOK}) \/ DoLast({EnvOK})
  \/ DoNext({EnvOK}) \/ DoNextPrefix({EnvOK}) \/ DoPrev({EnvOK})

SpecWide == InitWide /\ [][StepWide]_vars

\* The wide levels with lazy combined iteration registered and never
\* initialized: a relative seek steps over every file of the level.
InitWideCombined ==
  /\ level \in WideLevels
  /\ hasSlot \in {FALSE, HasTombstone(level)}
  /\ hasCombined = TRUE
  /\ \E b \in WideBoundPairs : l = NewLevelIter(b[1], b[2])
  /\ ret = NilKV
  /\ walk = NoWalk
  /\ fatal = NoFatal

SpecWideCombined == InitWideCombined /\ [][StepWide]_vars

\* Two-file levels without range keys whose second file is plain; every
\* external call may fail.
FaultLevels ==
  { SubSeq(lv, 1, 2) : lv \in { x \in Levels : ~HasRangeKeyFile(x) /\ x[2] = PlainSlot(1)
                                                 /\ x[3] = PlainSlot(2) } }

InitFault ==
  /\ level \in FaultLevels
  /\ hasSlot \in {FALSE, HasTombstone(level)}
  /\ hasCombined = FALSE
  /\ Constructed

StepFault ==
  \/ DoSeekGE(Envs) \/ DoSeekPrefixGE(Envs) \/ DoSeekLT(Envs)
  \/ DoFirst(Envs) \/ DoLast(Envs)
  \/ DoNext(Envs) \/ DoNextPrefix(Envs) \/ DoPrev(Envs)
  \/ DoSetBounds(Envs) \/ DoClose(Envs)

SpecFault == InitFault /\ [][StepFault]_vars

\* Scenario S3: a level of one file with the point keys a = 0 and c = 2 and
\* a tombstone [b, d) = [1, 3), with the slot registered and the bounds
\* [a, z) = [0, MaxKey + 1).  The largest point key of the file is the
\* exclusive sentinel d, as the tombstone reaches past c; the file whose
\* largest point key is written as c is taken along.
S3File(lp, excl) == File(<<0, 2>>, 0, lp, excl, TRUE, TRUE, FALSE, Nil, Nil, TRUE, 0)
S3Levels == { <<S3File(3, TRUE)>>, <<S3File(2, FALSE)>> }

InitS3 ==
  /\ level \in S3Levels
  /\ hasSlot = TRUE
  /\ hasCombined = FALSE
  /\ l = NewLevelIter(0, MaxKey + 1)
  /\ ret = NilKV
  /\ walk = NoWalk
  /\ fatal = NoFatal

StepS3 ==
  \/ DoSeekGE({EnvOK}) \/ DoSeekPrefixGE({EnvOK}) \/ DoSeekLT({EnvOK})
  \/ DoFirst({EnvOK}) \/ DoLast({EnvOK})
  \/ DoNext({EnvOK}) \/ DoNextPrefix({EnvOK}) \/ DoPrev({EnvOK})
  \/ DoSetBounds({EnvOK}) \/ DoClose({EnvOK})

SpecS3 == InitS3 /\ [][StepS3]_vars

\* A level whose middle file has two point keys, a tombstone, and a range
\* key set that starts at its second point key (no valid stats): an upper
\* bound on that key lets the file be loaded with its range keys out of
\* the bounds.  Slot and combined iteration are registered.
PointsLateRangeKey(b) ==
  File(<<b, b + 1>>, b, b + 1, FALSE, TRUE, TRUE, TRUE, b + 1, b + SlotWidth, FALSE, 0)
ReloadLevels == { <<PlainSlot(0), PointsLateRangeKey(SlotWidth), PlainSlot(2)>> }

InitReload ==
  /\ level \in ReloadLevels
  /\ hasSlot = TRUE
  /\ hasCombined = TRUE
  /\ Constructed

SpecReload == InitReload /\ [][Step]_vars

\* ------------------------------------------------------------ properties
\* The point keys of files i..j of the level, in order.
RECURSIVE KeysOf(_, _)
KeysOf(i, j) == IF i > j THEN <<>> ELSE level[i].keys \o KeysOf(i + 1, j)
InBounds(k) == (l.lower = Nil \/ k >= l.lower) /\ (l.upper = Nil \/ k < l.upper)
\* The point keys of the level within [lower, upper), ascending.
BoundedKeys == SelectSeq(KeysOf(1, NumFiles), InBounds)
Reverse(q) == [i \in 1..Len(q) |-> q[Len(q) + 1 - i]]
HasTombstoneFile == HasTombstone(level)

\* C1: the real keys returned by First (or a seek to the lower bound) and
\* the Nexts after it are non-decreasing; those returned by Last (or a seek
\* to the upper bound) and the Prevs after it are non-increasing.
C1_WalkMonotone ==
  walk.full =>
    \A i \in 1..(Len(walk.seen) - 1) :
      IF walk.dir = "fwd" THEN walk.seen[i] <= walk.seen[i + 1]
      ELSE walk.seen[i] >= walk.seen[i + 1]
\* A reverse walk over a level with tombstones, with the slot registered,
\* that reached null after at least four real keys.
C1_Witness ==
  /\ walk.full /\ walk.done /\ walk.dir = "bwd" /\ Len(walk.seen) >= 4
  /\ hasSlot /\ HasTombstoneFile

\* C2: every real key returned lies in [lower, upper); every other key
\* returned is the exclusive range-delete sentinel with an empty value and a
\* user key in [lower, upper].
C2_WithinBounds ==
  /\ IsReal(ret) => InBounds(ret.UserKey)
  /\ (~IsNil(ret) /\ ~IsReal(ret)) =>
       /\ ret = [UserKey |-> ret.UserKey, Kind |-> "RANGEDEL_SENTINEL", V |-> ""]
       /\ l.lower = Nil \/ ret.UserKey >= l.lower
       /\ l.upper = Nil \/ ret.UserKey <= l.upper
\* A synthetic boundary returned at the upper bound itself.
C2_Witness ==
  /\ ~IsNil(ret) /\ ~IsReal(ret) /\ l.upper # Nil /\ ret.UserKey = l.upper

\* C3: a full forward walk returns exactly the point keys of the level
\* within [lower, upper), each once, in order; a full reverse walk returns
\* the same keys in reverse order.
C3_FullWalk ==
  (walk.full /\ walk.done) =>
    walk.seen = IF walk.dir = "fwd" THEN BoundedKeys ELSE Reverse(BoundedKeys)
\* A full forward walk from a lower bound that paused at tombstone files
\* and returned at least three keys.
C3_Witness ==
  /\ walk.full /\ walk.done /\ walk.dir = "fwd" /\ l.lower # Nil
  /\ hasSlot /\ HasTombstoneFile /\ Len(walk.seen) >= 3

\* The iterator is exhausted forward (backward): the last call returned
\* null, ExhaustedDir is +1 (-1) and no error is set.
ExhaustedForward == IsNil(ret) /\ l.exhaustedDir = 1 /\ Error(l) = NoErr
ExhaustedBackward == IsNil(ret) /\ l.exhaustedDir = -1 /\ Error(l) = NoErr
LargestBounded == BoundedKeys[Len(BoundedKeys)]
SmallestBounded == BoundedKeys[1]
\* Prev then Next from the current state; Next then Prev.
PrevThenNext ==
  LET p == Prev(Enter(l), EnvOK) IN [first |-> p, second |-> Next(Enter(IterOf(p.s)), EnvOK)]
NextThenPrev ==
  LET n == Next(Enter(IterOf(l)), EnvOK) IN [first |-> n, second |-> Prev(Enter(IterOf(n.s)), EnvOK)]
\* The reversal returned the extreme key (null on a level with no key within
\* the bounds) and the call after it null.
ExtremeThenNull(r, extreme) ==
  /\ r.first.kv = IF BoundedKeys = <<>> THEN NilKV ELSE RealKV(extreme)
  /\ IsNil(r.second.kv)
\* The reversal returned the extreme key, or paused on a synthetic boundary
\* of a file whose tombstone iterator is in the slot; the call after it
\* returned no real key.
ExtremeOrPause(r, extreme) ==
  /\ IsReal(r.first.kv) => BoundedKeys # <<>> /\ r.first.kv.UserKey = extreme
  /\ IsNil(r.first.kv) => BoundedKeys = <<>>
  /\ IsSynthetic(r.first.kv) => hasSlot /\ r.first.s.slot # 0
  /\ ~IsReal(r.second.kv)
  /\ IsSynthetic(r.second.kv) => hasSlot /\ r.second.s.slot # 0

\* C4 as stated: after exhaustion in one direction, one call in the
\* opposite direction returns the extreme key within the bounds and the
\* next call in the original direction returns null, in every configuration.
C4_Original ==
  /\ ExhaustedForward => ExtremeThenNull(PrevThenNext, LargestBounded)
  /\ ExhaustedBackward => ExtremeThenNull(NextThenPrev, SmallestBounded)
\* C4 amended: that holds when no tombstone slot is registered; with a slot
\* the reversal returns the extreme key or pauses on a synthetic boundary of
\* a file whose tombstone iterator is in the slot, and the call after it
\* returns null or such a boundary, never a real key.
C4_Reversal ==
  /\ ExhaustedForward =>
       /\ ExtremeOrPause(PrevThenNext, LargestBounded)
       /\ ~hasSlot => ExtremeThenNull(PrevThenNext, LargestBounded)
  /\ ExhaustedBackward =>
       /\ ExtremeOrPause(NextThenPrev, SmallestBounded)
       /\ ~hasSlot => ExtremeThenNull(NextThenPrev, SmallestBounded)
\* Exhausted forward with the slot registered, on a level where the reversal
\* returns the largest key and the Next after it pauses on a boundary.
C4_Witness ==
  /\ ExhaustedForward /\ hasSlot /\ walk.dir = "fwd"
  /\ IsReal(PrevThenNext.first.kv) /\ IsSynthetic(PrevThenNext.second.kv)

\* The last call paused on the largest (smallest) boundary of the file.
PausedForward == IsSynthetic(ret) /\ l.largestBoundary
PausedBackward == IsSynthetic(ret) /\ l.smallestBoundary
AfterNext == Next(Enter(l), EnvOK)
AfterPrev == Prev(Enter(l), EnvOK)
\* The point keys within the bounds of the files i..j, ascending.
BoundedKeysOf(i, j) == SelectSeq(KeysOf(i, j), InBounds)
\* The keys within the bounds a walk that is not a prefix walk has not passed.
AheadForward == SelectSeq(BoundedKeys, LAMBDA k : k >= walk.edge)
AheadBackward == SelectSeq(BoundedKeys, LAMBDA k : k < walk.edge)
PlainForward == walk.dir = "fwd" /\ ~walk.prefix /\ walk.edge # Nil
PlainBackward == walk.dir = "bwd" /\ ~walk.prefix /\ walk.edge # Nil
\* r returned the first (last) element of the sequence q, null if q is empty,
\* or a synthetic boundary.
NoneSkipped(r, q, i) ==
  /\ IsReal(r.kv) => q # <<>> /\ r.kv.UserKey = q[i]
  /\ IsNil(r.kv) => q = <<>>

\* r loaded a file after (before) file f and returned the first (last) of
\* its keys within the bounds.
LoadedFollowing(r, f) ==
  /\ r.s.iterFile > f /\ r.s.iter.file = r.s.iterFile /\ IsReal(r.kv)
  /\ LET q == BoundedKeysOf(r.s.iterFile, r.s.iterFile) IN q # <<>> /\ r.kv.UserKey = q[1]
LoadedPreceding(r, f) ==
  /\ r.s.iterFile # 0 /\ r.s.iterFile < f /\ r.s.iter.file = r.s.iterFile /\ IsReal(r.kv)
  /\ LET q == BoundedKeysOf(r.s.iterFile, r.s.iterFile) IN q # <<>> /\ r.kv.UserKey = q[Len(q)]
\* r stayed on file f and returned null.
StayedOn(r, f) == IsNil(r.kv) /\ r.s.iterFile = f /\ r.s.iter.file = f

\* C5 as stated: after a pause on a synthetic boundary the next call in the
\* same direction either stays on the file and returns null (the boundary
\* was the bound, inside the file) or loads the following (preceding) file
\* and returns its first (last) key; no key within the bounds is skipped.
C5_Original ==
  /\ PausedForward =>
       /\ \/ l.tableUpper # Nil /\ StayedOn(AfterNext, l.iterFile)
          \/ LoadedFollowing(AfterNext, l.iterFile)
       /\ PlainForward => NoneSkipped(AfterNext, AheadForward, 1)
  /\ PausedBackward =>
       /\ \/ l.tableLower # Nil /\ StayedOn(AfterPrev, l.iterFile)
          \/ LoadedPreceding(AfterPrev, l.iterFile)
       /\ PlainBackward => NoneSkipped(AfterPrev, AheadBackward, Len(AheadBackward))

\* What the call after a pause on a boundary of file f that is not the bound
\* does: it returns the nearest key within the bounds of the files beyond f,
\* or pauses again on a file beyond f whose tombstone iterator is in the
\* slot with no such key up to it, or returns null with no file loaded when
\* there is no such key.
MovedOnForward(r, f) ==
  /\ IsReal(r.kv) => LoadedFollowing(r, f) /\ BoundedKeysOf(f + 1, r.s.iterFile - 1) = <<>>
  /\ IsSynthetic(r.kv) =>
       /\ r.s.iterFile > f /\ r.s.slot = r.s.iterFile /\ r.s.largestBoundary
       /\ BoundedKeysOf(f + 1, r.s.iterFile) = <<>>
  /\ IsNil(r.kv) =>
       /\ r.s.iter.file = 0 /\ r.s.exhaustedDir = 1
       /\ BoundedKeysOf(f + 1, NumFiles) = <<>>
MovedOnBackward(r, f) ==
  /\ IsReal(r.kv) => LoadedPreceding(r, f) /\ BoundedKeysOf(r.s.iterFile + 1, f - 1) = <<>>
  /\ IsSynthetic(r.kv) =>
       /\ r.s.iterFile # 0 /\ r.s.iterFile < f /\ r.s.slot = r.s.iterFile /\ r.s.smallestBoundary
       /\ BoundedKeysOf(r.s.iterFile, f - 1) = <<>>
  /\ IsNil(r.kv) =>
       /\ r.s.iter.file = 0 /\ r.s.exhaustedDir = -1
       /\ BoundedKeysOf(1, f - 1) = <<>>

\* C5 amended: after a pause on the bound inside the file the next call in
\* the same direction stays on the file and returns null; after a pause on
\* the boundary of the file it moves on as MovedOnForward (MovedOnBackward)
\* says, which includes null at the end of the level and a pause on a later
\* file; in a walk that is not a prefix walk no key within the bounds is
\* skipped.
C5_Pause ==
  /\ PausedForward =>
       /\ l.tableUpper # Nil => StayedOn(AfterNext, l.iterFile) /\ AfterNext.s.exhaustedDir = 1
       /\ l.tableUpper = Nil => MovedOnForward(AfterNext, l.iterFile)
       /\ PlainForward => NoneSkipped(AfterNext, AheadForward, 1)
  /\ PausedBackward =>
       /\ l.tableLower # Nil => StayedOn(AfterPrev, l.iterFile) /\ AfterPrev.s.exhaustedDir = -1
       /\ l.tableLower = Nil => MovedOnBackward(AfterPrev, l.iterFile)
       /\ PlainBackward => NoneSkipped(AfterPrev, AheadBackward, Len(AheadBackward))
\* A walk with Next paused on the largest boundary of a file, and the Next
\* after the pause returns the first key of a following file.
C5_Witness ==
  /\ PausedForward /\ PlainForward /\ l.tableUpper = Nil /\ walk.edge > 0
  /\ IsReal(AfterNext.kv)

\* The two seeks of key k from the current state.
SeekGEBoth(k) ==
  [tsun |-> SeekGE(Enter(l), k, Flags(TRUE, FALSE), EnvOK),
   none |-> SeekGE(Enter(l), k, SeekGEFlagsNone, EnvOK)]
\* The state was reached by a forward walk that is not a prefix walk.
ForwardWalk == walk.dir = "fwd" /\ ~walk.prefix
\* The keys SeekGE accepts.
SeekableKeys == { k \in Keys : l.lower = Nil \/ k >= l.lower }

Qualifies(f) ==
  /\ level[f].HasRangeKeys
  /\ l.upper = Nil \/ level[f].SmallestRangeKey < l.upper
  /\ l.lower = Nil \/ level[f].LargestRangeKey > l.lower
  /\ ~level[f].StatsValid \/ level[f].NumRangeKeySets > 0
\* Combined iteration is registered and not initialized, and the iterator
\* is positioned in a forward walk.
RelativeState ==
  /\ hasCombined /\ ~l.initialized /\ l.iter.file # 0 /\ l.iterFile # 0
  /\ walk.dir = "fwd"
RelativeSeekGE(k) == SeekGE(Enter(l), k, Flags(FALSE, TRUE), EnvOK)
\* The last file of the span a seek that found file m and ended on file n
\* looked at (0 stands for running off the end of the level).
SpanEnd(m) == IF m = 0 THEN NumFiles ELSE m

\* C7 as stated: SeekGE(key, RelativeSeek) never seeks the cursor, and
\* triggers combined iteration if and only if a file from the current file
\* through the file the search returns qualifies.
C7_Original ==
  (RelativeState /\ ~l.triggered) =>
    \A k \in SeekableKeys :
      k >= walk.pos =>
        /\ RelativeSeekGE(k).s.seeks = 0
        /\ RelativeSeekGE(k).s.triggered <=>
             \E f \in l.iterFile..SpanEnd(RelativeSeekGE(k).s.found) : Qualifies(f)

\* C7 amended: SeekGE(key, RelativeSeek) never seeks the cursor, which only
\* moves forward from the current file, and on return combined iteration is
\* triggered if and only if it was triggered before or a file from the
\* current file through the last file the call looked at (the file found,
\* and the files after it that it loaded or skipped) qualifies.
C7_RelativeSeek ==
  RelativeState =>
    \A k \in SeekableKeys :
      k >= walk.pos =>
        /\ RelativeSeekGE(k).s.seeks = 0
        /\ RelativeSeekGE(k).s.files >= l.files
        /\ RelativeSeekGE(k).s.found = 0 \/ RelativeSeekGE(k).s.found >= l.iterFile
        /\ RelativeSeekGE(k).s.triggered <=>
             \/ l.triggered
             \/ \E f \in l.iterFile..SpanEnd(FilesCurrent(RelativeSeekGE(k).s.files)) : Qualifies(f)
\* A relative seek that steps to a later file and triggers combined
\* iteration on the way.
C7_Witness ==
  /\ RelativeState /\ ~l.triggered
  /\ \E k \in SeekableKeys :
       /\ k >= walk.pos /\ RelativeSeekGE(k).s.triggered
       /\ RelativeSeekGE(k).s.found > l.iterFile

\* The seeks SeekPrefixGE(Split(k), k) the caller may issue from the current
\* state: with or without TrySeekUsingNext, the bloom filter of the file
\* answering or not.
PrefixSeeks ==
  { [k |-> k, flags |-> f, e |-> e] :
      k \in SeekableKeys, f \in {SeekGEFlagsNone, Flags(TRUE, FALSE)}, e \in {EnvOK, BloomMiss} }
LegalPrefixSeek(p) ==
  p.flags.TrySeekUsingNext => (walk.dir = "fwd" /\ p.k >= walk.pos)
PrefixSeekResult(p) == SeekPrefixGE(Enter(l), Split(p.k), p.k, p.flags, p.e)
\* The seek returned null on the file the file search chose, without error.
NullOnFoundFile(r) ==
  /\ IsNil(r.kv) /\ Error(IterOf(r.s)) = NoErr
  /\ r.s.found # 0 /\ r.s.iterFile = r.s.found
\* The keys with the prefix of k in the files after file f.
LaterPrefixKeys(f, k) ==
  { x \in Keys : Split(x) = Split(k) /\ \E i \in (f + 1)..NumFiles :
                                           \E j \in 1..Len(level[i].keys) : level[i].keys[j] = x }

\* C8 as stated: when SeekPrefixGE returns null on the file the file search
\* chose, with no error, no later file has a key with the prefix.
C8_Original ==
  \A p \in PrefixSeeks :
    (LegalPrefixSeek(p) /\ NullOnFoundFile(PrefixSeekResult(p))) =>
      LaterPrefixKeys(PrefixSeekResult(p).s.iterFile, p.k) = {}
\* C8 amended: then no later file has a key with the prefix below the upper
\* bound.
C8_PrefixNull ==
  \A p \in PrefixSeeks :
    (LegalPrefixSeek(p) /\ NullOnFoundFile(PrefixSeekResult(p))) =>
      \A x \in LaterPrefixKeys(PrefixSeekResult(p).s.iterFile, p.k) :
        l.upper # Nil /\ x >= l.upper
\* A prefix seek that returns null on the loaded file the search chose,
\* which is not the last file of the level and lies within the bounds.
C8_Witness ==
  \E p \in PrefixSeeks :
    /\ LegalPrefixSeek(p) /\ NullOnFoundFile(PrefixSeekResult(p))
    /\ PrefixSeekResult(p).s.iter.file = PrefixSeekResult(p).s.iterFile
    /\ PrefixSeekResult(p).s.iterFile < NumFiles
    /\ PrefixSeekResult(p).s.tableUpper = Nil
    /\ p.flags.TrySeekUsingNext

\* Close in environment e1, then Close in environment e2.
CloseTwice(e1, e2) ==
  LET c1 == Close(Enter(l), e1) IN [first |-> c1, second |-> Close(Enter(IterOf(c1)), e2)]

\* C9: a second Close right after a first returns the error the first
\* returned, closes no iterator, and leaves the point iterator, the slot and
\* the copy of the range-deletion iterator nil.
C9_CloseIdempotent ==
  \A e1 \in Envs, e2 \in Envs :
    LET c == CloseTwice(e1, e2) IN
      /\ c.second.err = c.first.err
      /\ c.second.closedPoint = <<>> /\ c.second.closedRange = <<>>
      /\ c.second.iter = NoIter /\ c.second.slot = 0 /\ c.second.rangeDelIterCopy = 0
\* A file with its range-deletion iterator in the slot is loaded and the
\* point iterator holds an error, which the first Close returns.
C9_Witness ==
  /\ l.iter.file # 0 /\ l.iter.err # NoErr /\ hasSlot /\ l.rangeDelIterCopy # 0
  /\ CloseTwice(EnvOK, EnvOK).first.err # NoErr
  /\ CloseTwice(EnvOK, EnvOK).first.closedRange # <<>>

\* C10: the assertion of makeSyntheticBoundary never fails, and a synthetic
\* boundary is only returned while a slot is registered and holds the
\* range-deletion iterator of the loaded file.
C10_BoundaryNeedsSlot ==
  /\ ~fatal.assertFail
  /\ IsSynthetic(ret) =>
       /\ hasSlot /\ l.slot # 0 /\ l.slot = l.iterFile /\ l.iter.file = l.iterFile
       /\ level[l.iterFile].rangeDel
\* SeekPrefixGE paused on the largest boundary of a file.
C10_Witness ==
  /\ IsSynthetic(ret) /\ walk.prefix /\ l.largestBoundary /\ l.tableUpper = Nil
\* The positioning calls the caller may issue from the current state in an
\* environment of E, each with the record it ends with and what it returns.
Call(op, key, flags, e, r) == [op |-> op, key |-> key, flags |-> flags, e |-> e, s |-> r.s, kv |-> r.kv]
SeekCalls(E) ==
  UNION { UNION { { Call("SeekGE", key, flags, e, SeekGE(Enter(l), key, flags, e)) : e \in E }
                  \cup { Call("SeekPrefixGE", key, flags, e,
                              SeekPrefixGE(Enter(l), Split(key), key, flags, e)) :
                         e \in E \cup {BloomMiss} } :
                  flags \in SeekGEFlagSets(walk, key) } : key \in SeekableKeys }
  \cup
  UNION { UNION { { Call("SeekLT", key, flags, e, SeekLT(Enter(l), key, flags, e)) : e \in E } :
                  flags \in SeekLTFlagSets(walk, key) } :
          key \in { k \in SentinelKeys : l.upper = Nil \/ k <= l.upper } }
  \cup (IF l.lower = Nil
        THEN { Call("First", Nil, SeekGEFlagsNone, e, First(Enter(l), e)) : e \in E } ELSE {})
  \cup (IF l.upper = Nil
        THEN { Call("Last", Nil, SeekGEFlagsNone, e, Last(Enter(l), e)) : e \in E } ELSE {})
StepCalls(E) ==
  { Call("Next", Nil, SeekGEFlagsNone, e, Next(Enter(l), e)) : e \in E }
  \cup { Call("Prev", Nil, SeekGEFlagsNone, e, Prev(Enter(l), e)) : e \in E }
  \cup (IF walk.dir = "fwd"
        THEN UNION { { Call("NextPrefix", succKey, SeekGEFlagsNone, e,
                            NextPrefix(Enter(l), succKey, e)) : e \in E } :
                     succKey \in { k \in Keys : k > walk.pos } }
        ELSE {})
Calls(E) == SeekCalls(E) \cup StepCalls(E)
\* The range-deletion iterator the opener returns for file f (0 is nil).
RangeDelIterOf(f) == IF f # 0 /\ level[f].rangeDel THEN f ELSE 0
\* What C11 says of the slot after call c.
SlotFollowsReturn(c) ==
  IF IsNil(c.kv) THEN c.s.slot = 0
  ELSE c.s.iter.file = c.s.iterFile /\ c.s.slot = RangeDelIterOf(c.s.iterFile)

Inert(c) ==
  /\ IsNil(c.kv) /\ c.s.files = l.files /\ c.s.opened = <<>>
  /\ c.s.err = l.err /\ c.s.iterFile = l.iterFile
\* Next, Prev and NextPrefix from the current state, whatever the walk.
RelativeCalls(E) ==
  { Call("Next", Nil, SeekGEFlagsNone, e, Next(Enter(l), e)) : e \in E }
  \cup { Call("Prev", Nil, SeekGEFlagsNone, e, Prev(Enter(l), e)) : e \in E }
  \cup UNION { { Call("NextPrefix", succKey, SeekGEFlagsNone, e,
                      NextPrefix(Enter(l), succKey, e)) : e \in E } : succKey \in Keys }

\* C12: while the error of the levelIter is set, Next, Prev and NextPrefix
\* return null, move no cursor, open no table and keep the error, also a
\* Prev after forward exhaustion and a Next after backward exhaustion.
C12_StickyError ==
  l.err # NoErr => \A c \in RelativeCalls(Envs) : Inert(c)
\* The same for the calls that do not restart from an extreme: all but
\* Next after backward exhaustion and Prev after forward exhaustion.
C12_InertUnlessRestart ==
  l.err # NoErr =>
    \A c \in RelativeCalls(Envs) :
      \/ Inert(c)
      \/ c.op = "Next" /\ l.exhaustedDir = -1
      \/ c.op = "Prev" /\ l.exhaustedDir = 1
\* The opener failed in a backward seek, and Next, the opener working again,
\* returns a key.
C12_Witness ==
  /\ l.err = "open" /\ l.exhaustedDir = -1
  /\ \E c \in RelativeCalls({EnvOK}) : c.op = "Next" /\ IsReal(c.kv) /\ c.s.err = NoErr
\* The opener was called in call c and failed.
OpenerFailed(c) == c.e.openFail /\ c.s.opened # <<>>
\* Every positioning call from the current state, whatever the walk.
AllCalls(E) == SeekCalls(E) \cup RelativeCalls(E)

\* C13: a positioning call in which the opener fails returns null with no
\* point iterator and a nil slot, and Error() then returns the error of the
\* opener; Error() is the error of the levelIter when that is set or no
\* point iterator is open, the error of the point iterator otherwise.
C13_OpenerFailure ==
  /\ \A c \in AllCalls(Envs) :
       OpenerFailed(c) =>
         /\ IsNil(c.kv) /\ c.s.iter = NoIter /\ c.s.slot = 0
         /\ Error(IterOf(c.s)) = "open"
  /\ Error(l) = (IF l.err # NoErr THEN l.err
                 ELSE IF l.iter = NoIter THEN NoErr ELSE l.iter.err)
\* A file with its range-deletion iterator in the slot is loaded, and a call
\* closes it and fails to open the next file.
C13_Witness ==
  /\ l.slot # 0 /\ l.iter.file # 0
  /\ \E c \in AllCalls(Envs) : OpenerFailed(c) /\ c.s.closedRange # <<>>
  /\ l.iter.err = NoErr
\* SetBounds with each pair of bounds, as a call that returns nothing.
SetBoundsCalls(E) ==
  UNION { { [op |-> "SetBounds", key |-> Nil, flags |-> SeekGEFlagsNone, e |-> e,
             s |-> SetBounds(Enter(l), b[1], b[2], e), kv |-> NilKV] : e \in E } :
          b \in BoundPairs }
\* Call c opened a file or closed the range-deletion iterator: the two
\* handoff points ran.
Handoff(c) == c.s.opened # <<>> \/ c.s.closedRange # <<>>
\* The iterator is paused on the bound inside the loaded file.
PausedOnBound ==
  \/ l.largestBoundary /\ l.tableUpper # Nil
  \/ l.smallestBoundary /\ l.tableLower # Nil

\* C14 as stated: the slot changes only where loadFile opens a new file and
\* in Close.
C14_Original ==
  hasSlot =>
    \A c \in AllCalls({EnvOK}) \cup SetBoundsCalls({EnvOK}) :
      c.s.slot # l.slot => Handoff(c)
\* C14 amended: besides, Next, NextPrefix and Prev that leave a pause on the
\* bound inside the file set the slot to nil, and a call that finds the file
\* already loaded sets it back to the copy the levelIter kept.
C14_SlotWrites ==
  hasSlot =>
    \A c \in AllCalls({EnvOK}) \cup SetBoundsCalls({EnvOK}) :
      c.s.slot # l.slot =>
        \/ Handoff(c)
        \/ /\ c.op \in {"Next", "NextPrefix", "Prev"} /\ PausedOnBound
           /\ c.s.slot = 0 /\ IsNil(c.kv)
        \/ /\ c.op # "SetBounds"
           /\ l.slot = 0 /\ c.s.slot = l.rangeDelIterCopy
           /\ c.s.rangeDelIterCopy = l.rangeDelIterCopy /\ c.s.iter.file = l.iter.file
\* The slot was set to nil on a pause on the upper bound, and a seek that
\* finds the file loaded sets it again.
C14_Witness ==
  /\ hasSlot /\ l.slot = 0 /\ l.rangeDelIterCopy # 0 /\ l.largestBoundary
  /\ \E c \in SeekCalls({EnvOK}) : c.s.slot = l.rangeDelIterCopy /\ ~Handoff(c)

PrefixLoad(c) ==
  LET ff == findFileGE([Enter(l) EXCEPT !.err = NoErr, !.exhaustedDir = 0], c.key, c.flags)
  IN  loadFile(ff.s, ff.m, 1, c.e)
PrefixInner(c) ==
  LET lf == PrefixLoad(c)
  IN  Inner(c.e, lf.s.iter,
            ItSeekPrefixGE(lf.s.iter, Split(c.key), c.key,
                           c.flags.TrySeekUsingNext /\ lf.ind # "newFileLoaded",
                           c.e.bloomHit))
\* The seek of the loaded file's iterator returned null without an error
\* while the file's range-deletion iterator is in the registered slot.
PrefixMiss(c) ==
  /\ c.op = "SeekPrefixGE"
  /\ PrefixLoad(c).ind # "noFileLoaded"
  /\ PrefixInner(c).key = Nil /\ PrefixInner(c).it.err = NoErr
  /\ hasSlot /\ PrefixLoad(c).s.slot # 0
\* The upper bound falls within file f.
UpperWithin(f) ==
  l.upper # Nil /\ level[f].SmallestPointKey < l.upper /\ l.upper <= level[f].LargestPointKey
PrefixCalls(E) == { c \in SeekCalls(E) : c.op = "SeekPrefixGE" }

\* C16: when the inner seek of SeekPrefixGE returns null without error on a
\* file whose range-deletion iterator is in the registered slot, SeekPrefixGE
\* returns a synthetic boundary at the upper bound if the upper bound falls
\* within the file (and ExhaustedDir = +1), otherwise at the file's largest
\* point key (ExhaustedDir stays 0); the file stays loaded, no later file is
\* opened and the slot still holds the file's range-deletion iterator.
C16_PrefixMissPauses ==
  \A c \in PrefixCalls({EnvOK}) :
    PrefixMiss(c) =>
      LET f == PrefixLoad(c).s.iterFile IN
      /\ IsSynthetic(c.kv)
      /\ c.kv.UserKey = (IF UpperWithin(f) THEN l.upper ELSE level[f].LargestPointKey)
      /\ c.s.exhaustedDir = (IF UpperWithin(f) THEN 1 ELSE 0)
      /\ c.s.iterFile = f /\ c.s.iter.file = f
      /\ c.s.opened = PrefixLoad(c).s.opened
      /\ c.s.closedPoint = PrefixLoad(c).s.closedPoint
      /\ c.s.slot # 0 /\ c.s.slot = RangeDelIterOf(f)

\* A SeekPrefixGE on a file with a later file behind it misses although the
\* Bloom filter let it through, and pauses on the file's largest point key
\* below an upper bound that is set.
C16_Witness ==
  \E c \in PrefixCalls({EnvOK}) :
    /\ PrefixMiss(c) /\ c.e = EnvOK
    /\ l.iter.file # 0 /\ l.iter.file = c.s.iterFile
    /\ l.upper # Nil /\ ~UpperWithin(c.s.iterFile)
    /\ c.s.iterFile < NumFiles
    /\ c.s.exhaustedDir = 0 /\ IsSynthetic(c.kv)

\* The key of call c lies beyond the largest point key of the last file
\* (which has point keys).
BeyondLastFile(c) ==
  NumFiles > 0 /\ level[NumFiles].HasPointKeys /\ c.key > level[NumFiles].LargestPointKey
\* The bounds of scenario S3.
S3Bounds == l.lower = 0 /\ l.upper = MaxKey + 1

\* C17 (as stated): in scenario S3 SeekPrefixGE(x, xa) returns a synthetic
\* sentinel with user key c and leaves the tombstone iterator of the file in
\* the slot; a SeekPrefixGE whose key lies beyond the largest point key of
\* the last file pauses on that file instead of returning null.
C17_Original ==
  \A c \in PrefixCalls({EnvOK}) :
    BeyondLastFile(c) /\ hasSlot /\ level[NumFiles].rangeDel =>
      /\ IsSynthetic(c.kv) /\ c.s.slot = NumFiles
      /\ S3Bounds /\ c.key = MaxKey => c.kv.UserKey = 2

\* C17 (amended): a SeekPrefixGE whose key lies beyond the largest point key
\* of the last file finds no file: it returns null without an error, with
\* ExhaustedDir = +1, calls no opener, and leaves no file loaded and the
\* slot null; so does SeekPrefixGE(x, xa) in scenario S3.
C17_BeyondLastFileNull ==
  \A c \in PrefixCalls({EnvOK}) :
    BeyondLastFile(c) =>
      /\ IsNil(c.kv) /\ c.s.err = NoErr /\ c.s.exhaustedDir = 1
      /\ c.s.opened = <<>> /\ c.s.iter = NoIter /\ c.s.slot = 0

\* Scenario S3 with the file loaded and its tombstone iterator in the slot:
\* SeekPrefixGE(x, xa) closes the file and returns null.
C17_Witness ==
  /\ S3Bounds /\ l.slot # 0 /\ l.iter.file # 0
  /\ \E c \in PrefixCalls({EnvOK}) :
        /\ c.key = MaxKey /\ c.e = EnvOK /\ BeyondLastFile(c)
        /\ IsNil(c.kv) /\ c.s.closedRange # <<>> /\ c.s.slot = 0

\* C18 (as stated): when SeekPrefixGE comes back empty within a file that
\* has tombstones, the user key of the synthetic boundary is the upper bound
\* of the iterator whenever an upper bound is set, also when it lies beyond
\* the largest point key of the file, and the largest point key of the file
\* only when no upper bound is set.
C18_Original ==
  \A c \in PrefixCalls({EnvOK}) :
    PrefixMiss(c) =>
      c.kv.UserKey = (IF l.upper # Nil THEN l.upper
                      ELSE level[c.s.iterFile].LargestPointKey)

\* C18 (amended): the user key of the boundary is the upper bound only when
\* the upper bound is set and at or below the largest point key of the file
\* (the upper bound of the table is then set); with no upper bound, or one
\* beyond the largest point key, it is the largest point key of the file.
C18_BoundaryKey ==
  \A c \in PrefixCalls({EnvOK}) :
    PrefixMiss(c) =>
      LET lp == level[c.s.iterFile].LargestPointKey IN
      /\ c.s.largestBoundary /\ c.kv = c.s.syntheticBoundary
      /\ c.s.tableUpper = (IF l.upper # Nil /\ l.upper <= lp THEN l.upper ELSE Nil)
      /\ c.kv.UserKey = (IF l.upper = Nil THEN lp ELSE Min(l.upper, lp))

\* The Bloom filter rejects the prefix in a file with tombstones while the
\* upper bound is set beyond the largest point key of the file: the
\* boundary is at the largest point key, below the upper bound.
C18_Witness ==
  \E c \in PrefixCalls({EnvOK}) :
    /\ PrefixMiss(c) /\ c.e = BloomMiss
    /\ l.upper # Nil /\ l.upper > level[c.s.iterFile].LargestPointKey
    /\ c.kv.UserKey = level[c.s.iterFile].LargestPointKey
    /\ c.s.tableUpper = Nil

\* The environments of a Close: each of the two closes fails or not.
CloseEnvs == { Env(FALSE, FALSE, p, r, TRUE) : p \in BOOLEAN, r \in BOOLEAN }

\* C19: from every reachable state in which the error of the level iterator
\* is set, Close returns that error, whatever the closes of the inner
\* iterators return; and when the close of the point iterator fails, Close
\* returns its error, also when the close of the range-deletion iterator
\* fails too.
C19_CloseFirstErrorWins ==
  \A e \in CloseEnvs :
    /\ l.err # NoErr => Close(Enter(l), e).err = l.err
    /\ l.iter.file # 0 /\ ItClose(l.iter, e) # NoErr =>
         Close(Enter(l), e).err = ItClose(l.iter, e)

\* A file with its range-deletion iterator is open: a Close whose two closes
\* fail returns the error of the point iterator and closes both; after a
\* Close whose point close failed, a second Close whose range-deletion close
\* would fail still returns the stored error.
C19_Witness ==
  /\ hasSlot /\ l.iter.file # 0 /\ l.rangeDelIterCopy # 0 /\ l.err = NoErr
  /\ LET c == Close(Enter(l), Env(FALSE, FALSE, TRUE, TRUE, TRUE)) IN
       c.err = "closePoint" /\ c.closedPoint # <<>> /\ c.closedRange # <<>>
  /\ CloseTwice(Env(FALSE, FALSE, TRUE, FALSE, TRUE),
                Env(FALSE, FALSE, FALSE, TRUE, TRUE)).second.err = "closePoint"

\* The fields of the struct that loadFile leaves alone when the file is
\* already loaded.
LoadFileFrame ==
  {"iter", "iterFile", "tableLower", "tableUpper", "rangeDelIterCopy", "lower", "upper",
   "err", "exhaustedDir", "files", "initialized"}
\* File f has range keys that the iterator must report: combined iteration
\* is registered and not initialized, the range keys overlap the bounds, and
\* the stats do not say that there are no sets.
MustTrigger(f) ==
  /\ level[f].HasRangeKeys /\ hasCombined /\ ~l.initialized
  /\ l.upper = Nil \/ level[f].SmallestRangeKey < l.upper
  /\ l.lower = Nil \/ level[f].LargestRangeKey > l.lower
  /\ ~level[f].StatsValid \/ level[f].NumRangeKeySets > 0

\* C20: loadFile called with the current file, no stored error and an open
\* inner iterator returns fileAlreadyLoaded without a call of the opener
\* and without closing an iterator; it sets the slot to the private copy,
\* clears both boundary registers, evaluates the trigger of combined
\* iteration for the file again, and leaves the inner iterator, the current
\* file and the bounds of the table unchanged.
C20_AlreadyLoaded ==
  l.err = NoErr /\ l.iter.file # 0 /\ l.iterFile # 0 =>
    \A dir \in {1, -1}, e \in Envs :
      LET r == loadFile(Enter(l), l.iterFile, dir, e)
          t == maybeTriggerCombinedIteration(Enter(l), l.iterFile, dir)
      IN
      /\ r.ind = "fileAlreadyLoaded"
      /\ r.s.opened = <<>> /\ r.s.closedPoint = <<>> /\ r.s.closedRange = <<>>
      /\ hasSlot => r.s.slot = l.rangeDelIterCopy
      /\ ~hasSlot => r.s.slot = l.slot
      /\ ~r.s.smallestBoundary /\ ~r.s.largestBoundary
      /\ r.s.triggered = t.triggered /\ r.s.key = t.key
      /\ MustTrigger(l.iterFile) => r.s.triggered
      /\ \A f \in LoadFileFrame : r.s[f] = l[f]

\* The loaded file has range keys that came within the bounds after it was
\* opened, and the slot was set to null on a pause: loadFile on that file
\* triggers combined iteration, puts the private copy back in the slot and
\* clears the boundary register.
C20_Witness ==
  /\ l.err = NoErr /\ l.iter.file # 0 /\ l.iterFile = l.iter.file
  /\ ~l.triggered /\ MustTrigger(l.iterFile)
  /\ hasSlot /\ l.slot = 0 /\ l.rangeDelIterCopy # 0 /\ l.largestBoundary
  /\ LET r == loadFile(Enter(l), l.iterFile, 1, EnvOK) IN
       /\ r.ind = "fileAlreadyLoaded" /\ r.s.triggered
       /\ r.s.slot = l.rangeDelIterCopy /\ ~r.s.largestBoundary

\* loadFile called on file f with the cursor on f, as the file searches
\* leave it.
LoadAt(f, dir, e) == loadFile([Enter(l) EXCEPT !.files = f], f, dir, e)
\* File f has point keys and lies entirely at or above the upper bound, or
\* entirely below the lower bound.
AboveUpper(f) ==
  level[f].HasPointKeys /\ l.upper # Nil /\ level[f].SmallestPointKey >= l.upper
BelowLower(f) ==
  level[f].HasPointKeys /\ l.lower # Nil /\ level[f].LargestPointKey < l.lower
\* loadFile gave up on f: nothing loaded, the cursor and the current file
\* on f, no opener call.
GaveUpOn(r, f) ==
  /\ r.ind = "noFileLoaded" /\ r.s.files = f /\ r.s.iterFile = f
  /\ r.s.opened = <<>> /\ r.s.iter = NoIter
\* loadFile went on from f in direction dir without opening f.
WentOnFrom(r, f, dir) ==
  /\ IF dir = 1 THEN r.s.files > f ELSE r.s.files < f
  /\ r.s.iterFile # f
  /\ \A i \in 1..Len(r.s.opened) : r.s.opened[i] # f
\* The files loadFile is not already on with an open iterator.
Candidates == { f \in FileIdx : l.iterFile # f \/ l.iter.file = 0 }

\* C21 (as stated): a candidate table entirely at or above the upper bound
\* while dir = +1, or entirely below the lower bound while dir = -1, makes
\* loadFile step the cursor on in that direction; a table out of bounds the
\* other way round makes loadFile return noFileLoaded.
C21_Original ==
  l.err = NoErr =>
    \A f \in Candidates :
      /\ AboveUpper(f) => WentOnFrom(LoadAt(f, 1, EnvOK), f, 1)
                          /\ GaveUpOn(LoadAt(f, -1, EnvOK), f)
      /\ BelowLower(f) => WentOnFrom(LoadAt(f, -1, EnvOK), f, -1)
                          /\ GaveUpOn(LoadAt(f, 1, EnvOK), f)

\* C21 (amended): a candidate table entirely below the lower bound while
\* dir = +1, or entirely at or above the upper bound while dir = -1, has
\* not reached the bounds yet: loadFile steps the cursor on in direction
\* dir without opening it.  A table entirely at or above the upper bound
\* while dir = +1, or entirely below the lower bound while dir = -1, has
\* overshot them: loadFile returns noFileLoaded with the cursor on it.
C21_OutOfBounds ==
  l.err = NoErr =>
    \A f \in Candidates :
      /\ BelowLower(f) => WentOnFrom(LoadAt(f, 1, EnvOK), f, 1)
                          /\ GaveUpOn(LoadAt(f, -1, EnvOK), f)
      /\ AboveUpper(f) => WentOnFrom(LoadAt(f, -1, EnvOK), f, -1)
                          /\ GaveUpOn(LoadAt(f, 1, EnvOK), f)

\* A file is open while another file lies below the lower bound: loadFile
\* on it going forward closes the open file and loads a later one, going
\* backward it gives up.
C21_Witness ==
  /\ l.iter.file # 0 /\ l.err = NoErr
  /\ \E f \in Candidates :
        /\ BelowLower(f)
        /\ LoadAt(f, 1, EnvOK).ind = "newFileLoaded"
        /\ LoadAt(f, 1, EnvOK).s.closedPoint # <<>>
        /\ GaveUpOn(LoadAt(f, -1, EnvOK), f)

\* The largest point key of file f is an exclusive range-deletion sentinel
\* with user key k.
EndsBefore(f, k) == level[f].LargestExcl /\ level[f].LargestPointKey = k
GECalls(E) == { c \in SeekCalls(E) : c.op \in {"SeekGE", "SeekPrefixGE"} }

\* C22: SeekGE(key) and SeekPrefixGE(prefix, key), with any flags the caller
\* may pass, never call the opener on a file whose largest point key is an
\* exclusive range-deletion sentinel with user key equal to key; findFileGE
\* steps past such a file and returns a later file or none.
C22_SentinelFileNotOpened ==
  \A c \in GECalls(Envs) :
    \A f \in FileIdx :
      EndsBefore(f, c.key) =>
        /\ \A i \in 1..Len(c.s.opened) : c.s.opened[i] # f
        /\ c.s.found = 0 \/ c.s.found > f
        /\ c.s.iter.file # f

\* The file that ends with a tombstone is loaded; a SeekGE of the end of the
\* tombstone with TrySeekUsingNext starts the search on that file, closes
\* it and returns a key of the next file.
C22_Witness ==
  /\ l.iter.file # 0 /\ l.slot # 0 /\ EndsBefore(l.iter.file, level[l.iter.file].LargestPointKey)
  /\ \E c \in GECalls({EnvOK}) :
        /\ c.op = "SeekGE" /\ c.flags.TrySeekUsingNext
        /\ EndsBefore(l.iter.file, c.key)
        /\ c.s.closedRange = <<l.iter.file>> /\ c.s.opened = <<l.iter.file + 1>>
        /\ IsReal(c.kv)

\* The iterator is paused on a boundary at the upper (lower) bound, which
\* lies inside the loaded file.
PausedUpper(li) == li.largestBoundary /\ li.tableUpper # Nil /\ li.iter.file # 0
PausedLower(li) == li.smallestBoundary /\ li.tableLower # Nil /\ li.iter.file # 0
\* The fields a step on a pause leaves alone.
PauseFrame ==
  {"iter", "iterFile", "files", "tableLower", "tableUpper", "lower", "upper", "err",
   "rangeDelIterCopy", "smallestBoundary", "largestBoundary", "syntheticBoundary",
   "initialized", "triggered", "key"}
\* The step r from li stayed on the pause, exhausted in direction dir.
StaysPaused(li, r, dir) ==
  /\ IsNil(r.kv) /\ r.s.exhaustedDir = dir
  /\ hasSlot => r.s.slot = 0
  /\ r.s.opened = <<>> /\ r.s.closedPoint = <<>> /\ r.s.closedRange = <<>>
  /\ \A f \in PauseFrame : r.s[f] = li[f]

\* C23: while the iterator is paused on a forward boundary that is the
\* upper bound inside the current file, every Next returns null, sets
\* ExhaustedDir = +1, writes null to the slot, keeps the boundary register
\* and the current file, does not move the cursor and opens no file, and
\* leaves the iterator paused in the same way, so for any number of Nexts;
\* the same for Prev on a boundary at the lower bound.
C23_PauseHolds ==
  \A e \in Envs :
    /\ PausedUpper(l) =>
         LET r == Next(Enter(l), e) IN
         /\ StaysPaused(l, r, 1) /\ PausedUpper(r.s)
         /\ StaysPaused(IterOf(r.s), Next(Enter(IterOf(r.s)), e), 1)
    /\ PausedLower(l) =>
         LET r == Prev(Enter(l), e) IN
         /\ StaysPaused(l, r, -1) /\ PausedLower(r.s)
         /\ StaysPaused(IterOf(r.s), Prev(Enter(IterOf(r.s)), e), -1)

\* A Next has stayed on a pause at the upper bound: null was returned, the
\* slot is null while the private copy holds the tombstone iterator of the
\* loaded file.
C23_Witness ==
  /\ PausedUpper(l) /\ hasSlot /\ l.slot = 0 /\ l.rangeDelIterCopy # 0
  /\ l.exhaustedDir = 1 /\ IsNil(ret)
  /\ IsNil(Next(Enter(l), EnvOK).kv)

\* The call r of skipEmptyFileForward stayed on the loaded file.
StaysOnFile(r) ==
  /\ r.s.opened = <<>> /\ r.s.closedPoint = <<>> /\ r.s.closedRange = <<>>
  /\ r.s.files = l.files /\ r.s.iterFile = l.iterFile /\ r.s.iter = l.iter
  /\ r.s.slot = l.slot

\* C24 (as stated): skipEmptyFileForward with a slot registered.  If an
\* upper bound exists, it sets ExhaustedDir = +1 and returns a synthetic
\* boundary at the upper bound (tombstone iterator in the slot) or null (no
\* tombstone iterator), and never goes on to the next file; the next file is
\* loaded only when no upper bound exists and the slot is null, and a
\* boundary at the largest point key of the file is returned otherwise.
C24_Original ==
  hasSlot /\ l.iter.file # 0 /\ l.iter.err = NoErr =>
    \A e \in Envs :
      LET r == skipEmptyFileForward(Enter(l), e) IN
      /\ l.upper # Nil =>
           /\ r.s.exhaustedDir = 1 /\ r.s.opened = <<>>
           /\ r.kv = (IF l.slot # 0 THEN MakeRangeDeleteSentinelKey(l.upper) ELSE NilKV)
      /\ r.s.opened # <<>> => l.upper = Nil /\ l.slot = 0
      /\ l.upper = Nil /\ l.slot # 0 =>
           r.kv = MakeRangeDeleteSentinelKey(level[l.iterFile].LargestPointKey)

\* C24 (amended): skipEmptyFileForward with a slot registered.  If the table
\* has an upper bound (the upper bound of the iterator falls within the
\* loaded file), it sets ExhaustedDir = +1 and returns a synthetic boundary at the
\* upper bound when the tombstone iterator is in the slot, and null when it
\* is not, and never goes on to the next file.  Without such a bound it
\* returns a boundary at the largest point key of the file when the
\* tombstone iterator is in the slot, and goes on to the next file only
\* when the slot is null.
C24_SkipForward ==
  hasSlot /\ l.iter.file # 0 /\ l.iter.err = NoErr =>
    \A e \in Envs :
      LET r == skipEmptyFileForward(Enter(l), e) IN
      /\ l.tableUpper # Nil =>
           /\ r.s.exhaustedDir = 1 /\ StaysOnFile(r)
           /\ IF l.slot # 0
              THEN /\ r.kv = MakeRangeDeleteSentinelKey(l.tableUpper)
                   /\ r.s.largestBoundary /\ l.tableUpper = l.upper
              ELSE IsNil(r.kv) /\ r.s.largestBoundary = l.largestBoundary
      /\ l.tableUpper = Nil /\ l.slot # 0 =>
           /\ r.kv = MakeRangeDeleteSentinelKey(level[l.iterFile].LargestPointKey)
           /\ r.s.largestBoundary /\ r.s.exhaustedDir = l.exhaustedDir
           /\ StaysOnFile(r)
      /\ l.tableUpper = Nil /\ l.slot = 0 =>
           /\ r.s.files = FilesNext(l.files) \/ r.s.files > FilesNext(l.files)
           /\ r.s.closedPoint # <<>>
           /\ r.s.iter.file # l.iter.file

\* The iterator has an upper bound beyond the loaded file, which has no
\* tombstones, and stands on the last key of the file: Next goes through
\* skipEmptyFileForward, which opens the next file and returns its first
\* key.
C24_Witness ==
  /\ hasSlot /\ l.iter.file # 0 /\ l.iter.err = NoErr /\ l.err = NoErr
  /\ l.upper # Nil /\ l.tableUpper = Nil /\ l.slot = 0 /\ l.exhaustedDir = 0
  /\ ~l.largestBoundary /\ ~l.smallestBoundary
  /\ LET r == skipEmptyFileForward(Enter(l), EnvOK) IN
       /\ r.s.opened # <<>> /\ IsReal(r.kv)
       /\ Next(Enter(l), EnvOK).kv = r.kv
       /\ Next(Enter(l), EnvOK).s.opened = r.s.opened

\* Every pair of bounds a caller may set.
AllBoundPairs ==
  { b \in ({Nil} \cup Keys) \X ({Nil} \cup SentinelKeys) :
      b[1] = Nil \/ b[2] = Nil \/ b[1] < b[2] }
\* The point keys of file f overlap [lo, up).
Overlaps(f, lo, up) ==
  /\ lo = Nil \/ level[f].LargestPointKey >= lo
  /\ up = Nil \/ level[f].SmallestPointKey < up
\* The fields SetBounds never writes, and those it leaves alone while no
\* file is open.
SetBoundsFrame ==
  {"files", "iterFile", "smallestBoundary", "largestBoundary", "syntheticBoundary",
   "exhaustedDir", "initialized", "triggered", "key"}
SetBoundsIdle == {"iter", "slot", "rangeDelIterCopy", "tableLower", "tableUpper", "err"}

\* C25: SetBounds(lower, upper) always stores the new bounds.  With no inner
\* iterator open it changes nothing else.  With one open it computes the
\* bounds of the table for the current file again and, if the file no longer
\* overlaps [lower, upper), closes the point iterator and the range-deletion
\* iterator and sets the slot and the copy to null, else hands the bounds of
\* the table to the inner iterator.  It never moves the cursor, changes the
\* current file, the boundary registers or ExhaustedDir, or calls the
\* opener.
C25_SetBoundsFrame ==
  \A b \in AllBoundPairs, e \in Envs :
    LET r == SetBounds(Enter(l), b[1], b[2], e) IN
    /\ r.lower = b[1] /\ r.upper = b[2]
    /\ r.opened = <<>>
    /\ \A f \in SetBoundsFrame : r[f] = l[f]
    /\ l.iter.file = 0 =>
         /\ \A f \in SetBoundsIdle : r[f] = l[f]
         /\ r.closedPoint = <<>> /\ r.closedRange = <<>>
    /\ l.iter.file # 0 /\ ~Overlaps(l.iterFile, b[1], b[2]) =>
         /\ r.iter = NoIter /\ r.closedPoint = <<l.iter.file>>
         /\ hasSlot => /\ r.slot = 0 /\ r.rangeDelIterCopy = 0
                        /\ r.closedRange = (IF l.rangeDelIterCopy # 0
                                            THEN <<l.rangeDelIterCopy>> ELSE <<>>)
    /\ l.iter.file # 0 /\ Overlaps(l.iterFile, b[1], b[2]) =>
         /\ r.tableLower = (IF b[1] # Nil /\ b[1] > level[l.iterFile].SmallestPointKey
                            THEN b[1] ELSE Nil)
         /\ r.tableUpper = (IF b[2] # Nil /\ b[2] <= level[l.iterFile].LargestPointKey
                            THEN b[2] ELSE Nil)
         /\ r.iter.file = l.iter.file
         /\ r.iter.lo = r.tableLower /\ r.iter.up = r.tableUpper
         /\ r.slot = l.slot /\ r.rangeDelIterCopy = l.rangeDelIterCopy /\ r.err = l.err
         /\ r.closedPoint = <<>> /\ r.closedRange = <<>>

\* The iterator is paused on a boundary of a loaded file with tombstones,
\* exhausted forward: one SetBounds closes the file and leaves the boundary
\* register and ExhaustedDir as they are, another narrows the bounds of the
\* table and keeps the file open.
C25_Witness ==
  /\ l.iter.file # 0 /\ l.rangeDelIterCopy # 0 /\ l.largestBoundary /\ l.exhaustedDir = 1
  /\ \E b \in AllBoundPairs :
        LET r == SetBounds(Enter(l), b[1], b[2], EnvOK) IN
        r.iter = NoIter /\ r.closedRange # <<>> /\ r.largestBoundary /\ r.exhaustedDir = 1
  /\ \E b \in AllBoundPairs :
        LET r == SetBounds(Enter(l), b[1], b[2], EnvOK) IN
        r.iter.file = l.iter.file /\ r.tableUpper # l.tableUpper /\ r.tableUpper # Nil

\* Call c returned with a file loaded whose range keys must be reported
\* within the bounds in force: combined iteration registered and not
\* initialized, the range keys overlap the bounds, and the stats do not say
\* that the file has no range key sets.
LandsOnRangeKeys(c) ==
  /\ c.s.iter.file # 0 /\ c.s.iter.file = c.s.iterFile
  /\ hasCombined /\ ~c.s.initialized
  /\ level[c.s.iterFile].HasRangeKeys
  /\ c.s.upper = Nil \/ level[c.s.iterFile].SmallestRangeKey < c.s.upper
  /\ c.s.lower = Nil \/ level[c.s.iterFile].LargestRangeKey > c.s.lower
  /\ ~level[c.s.iterFile].StatsValid \/ level[c.s.iterFile].NumRangeKeySets > 0

\* C26: after any SetBounds calls, a positioning operation (a seek, First,
\* Last, and also Next, NextPrefix or Prev right after SetBounds) that lands
\* on a file whose range keys overlap the bounds in force, while combined
\* iteration is not initialized, returns with the trigger of combined
\* iteration set; the trigger is never dropped because the file was loaded
\* already or because earlier bounds excluded its range keys.
C26_TriggerNeverDropped ==
  \A c \in Calls({EnvOK}) : LandsOnRangeKeys(c) => c.s.triggered

\* The part of C26 that holds: the seeks, First and Last set the trigger
\* whenever they land on such a file; Next and Prev do unless they stay
\* within a file that was loaded before the bounds let its range keys in.
C26_SeeksTrigger ==
  /\ \A c \in SeekCalls({EnvOK}) : LandsOnRangeKeys(c) => c.s.triggered
  /\ \A c \in StepCalls({EnvOK}) :
        LandsOnRangeKeys(c) /\ ~c.s.triggered =>
          c.s.opened = <<>> /\ c.s.iter.file = l.iter.file /\ ~l.triggered

\* The file was loaded while the upper bound excluded its range keys, then
\* SetBounds widened the bounds: Next returns the next key of the file and
\* the trigger stays unset, while a seek of the same key sets it.
C26_Witness ==
  /\ l.iter.file # 0 /\ ~l.triggered /\ MustTrigger(l.iterFile) /\ walk = NoWalk
  /\ \E c \in StepCalls({EnvOK}) :
        c.op = "Next" /\ IsReal(c.kv) /\ LandsOnRangeKeys(c) /\ ~c.s.triggered
        /\ \E d \in SeekCalls({EnvOK}) :
              d.op = "SeekGE" /\ d.kv = c.kv /\ d.s.triggered /\ d.s.opened = <<>>

\* C27: after every public operation the current-file field equals the
\* entry the cursor of the level stands on, also when the opener fails or
\* when closing the iterators of the previous file fails inside loadFile
\* (so that a findFileGE that starts from the current-file field never
\* skips a file).
C27_IterFileIsCurrent ==
  l.iterFile = FilesCurrent(l.files)

\* The part of C27 that holds: the two differ only after a close inside
\* loadFile failed, with the error of the close stored and no file open.
C27_StaleOnlyAfterCloseFailure ==
  l.iterFile # FilesCurrent(l.files) =>
    /\ l.err \in {"closePoint", "closeRange", "iter"}
    /\ l.iter = NoIter /\ l.rangeDelIterCopy = 0

\* A close inside loadFile failed and left the current-file field on the
\* file before the one the cursor stands on: a findFileGE with
\* TrySeekUsingNext starts from that field, steps the cursor past the file
\* it stands on and finds no file, while findFileGE without the flag finds
\* that file.
C27_Witness ==
  /\ l.iterFile # 0 /\ FilesCurrent(l.files) = l.iterFile + 1 /\ l.err # NoErr
  /\ \E key \in Keys :
        /\ findFileGE(Enter(l), key, Flags(TRUE, FALSE)).m = 0
        /\ findFileGE(Enter(l), key, SeekGEFlagsNone).m = FilesCurrent(l.files)

\* The step r in direction dir from li, paused on the boundary of a file
\* that ends inside the bounds, went through loadFile on the neighbouring
\* file: the cursor moved there, and a register set afterwards is the
\* boundary of that other file.
ClearedByLoad(li, r, dir) ==
  /\ r.s.files = (IF dir = 1 THEN FilesNext(li.files) ELSE FilesPrev(li.files))
  /\ (IF dir = 1 THEN r.s.largestBoundary ELSE r.s.smallestBoundary) =>
       r.s.iter.file = r.s.files /\ r.s.iter.file # li.iter.file
\* What the claim says of a step in the direction of the register set in li.
SameDirectionStep(li, e) ==
  /\ li.largestBoundary =>
       IF li.tableUpper # Nil THEN StaysPaused(li, Next(Enter(li), e), 1)
       ELSE ClearedByLoad(li, Next(Enter(li), e), 1)
  /\ li.smallestBoundary =>
       IF li.tableLower # Nil THEN StaysPaused(li, Prev(Enter(li), e), -1)
       ELSE ClearedByLoad(li, Prev(Enter(li), e), -1)
\* What the claim says of a step against the register set in li.
OppositeStep(li, e) ==
  /\ li.largestBoundary => ~Prev(Enter(li), e).s.largestBoundary
  /\ li.smallestBoundary => ~Next(Enter(li), e).s.smallestBoundary

OnKeyOrFileBoundary ==
  /\ l.err = NoErr /\ l.iter.file # 0
  /\ \/ IsReal(ret)
     \/ IsSynthetic(ret) /\ l.largestBoundary /\ l.tableUpper = Nil
\* NextPrefix(succKey) and SeekGE(succKey, no flags) from the current state.
NextPrefixAndSeekGE(succKey) ==
  [np |-> NextPrefix(Enter(l), succKey, EnvOK),
   ge |-> SeekGE(Enter(l), succKey, SeekGEFlagsNone, EnvOK)]

\* C29: from a state positioned on a real key or paused on the boundary of
\* a file, NextPrefix(succKey) with succKey greater than the current key
\* returns what SeekGE(succKey, no flags) returns from that state, a real
\* key at or after succKey or a boundary or null; it leaves the cursor, the
\* loaded file, the point iterator, the slot and the registers as that
\* SeekGE does; and while combined iteration is registered and not
\* initialized its file search makes no binary-search seek of the cursor.
C29_NextPrefixAsSeekGE ==
  OnKeyOrFileBoundary =>
    \A succKey \in { k \in Keys : k > ret.UserKey } :
      LET c == NextPrefixAndSeekGE(succKey) IN
      /\ c.np.kv = c.ge.kv
      /\ IsReal(c.np.kv) => c.np.kv.UserKey >= succKey
      /\ \A f \in {"files", "iterFile", "iter", "slot", "rangeDelIterCopy",
                    "largestBoundary", "smallestBoundary", "tableLower", "tableUpper"} :
           c.np.s[f] = c.ge.s[f]
      /\ hasCombined /\ ~l.initialized => c.np.s.seeks = 0
\* On a real key, a NextPrefix steps the cursor over more files than the
\* budget of TrySeekUsingNext without a seek and returns the real key that
\* SeekGE finds with one seek.
C29_Witness ==
  /\ OnKeyOrFileBoundary /\ IsReal(ret) /\ hasCombined /\ ~l.initialized
  /\ \E succKey \in { k \in Keys : k > ret.UserKey } :
       LET c == NextPrefixAndSeekGE(succKey) IN
       /\ IsReal(c.np.kv) /\ c.np.kv = c.ge.kv
       /\ c.np.s.iterFile > l.iterFile + NextsUntilSeek
       /\ c.np.s.seeks = 0 /\ c.ge.s.seeks = 1
       /\ c.np.s.bothFlags

\* The point iterators, and the range-deletion iterators, the opener
\* returned in a call with log s made in environment e.
PointOpens(s, e) == IF e.openFail THEN <<>> ELSE s.opened
RangeOpens(s, e) ==
  IF hasSlot THEN SelectSeq(PointOpens(s, e), LAMBDA f : level[f].rangeDel) ELSE <<>>
\* A handle as a sequence: empty for nil.
Held(h) == IF h = 0 THEN <<>> ELSE <<h>>
\* Call c from the current state closed every iterator that was open or that
\* it opened, once and in the order of opening, but the one it leaves open,
\* and never called the opener with an iterator open.
ClosesWhatItOpens(c) ==
  /\ ~c.s.overlap
  /\ Held(l.iter.file) \o PointOpens(c.s, c.e) = c.s.closedPoint \o Held(c.s.iter.file)
  /\ Held(l.rangeDelIterCopy) \o RangeOpens(c.s, c.e)
       = c.s.closedRange \o Held(c.s.rangeDelIterCopy)
\* Close from the current state, as a call.
CloseCalls(E) ==
  { [op |-> "Close", key |-> Nil, flags |-> SeekGEFlagsNone, e |-> e,
     s |-> Close(Enter(l), e), kv |-> NilKV] : e \in E }

\* C30: the private copy is non-null only while the point iterator of the
\* same file is open, and the slot holds null or the handle of the private
\* copy; every positioning call, SetBounds and Close closes each iterator
\* that was open or that the opener returned exactly once, before the
\* opener is called again, but the one it leaves open; nothing is open after
\* Close.
C30_OneFileOpen ==
  /\ l.rangeDelIterCopy # 0 => hasSlot /\ l.iter.file = l.rangeDelIterCopy
  /\ l.slot \in {0, l.rangeDelIterCopy}
  /\ \A c \in AllCalls(Envs) \cup SetBoundsCalls(Envs) \cup CloseCalls(Envs) :
       ClosesWhatItOpens(c)
  /\ \A c \in CloseCalls(Envs) :
       c.s.iter = NoIter /\ c.s.rangeDelIterCopy = 0 /\ c.s.slot = 0
\* A file is open with its range-deletion iterator in the slot, and a call
\* closes both, opens another file and leaves its point iterator open.
C30_Witness ==
  /\ l.iter.file # 0 /\ l.slot # 0 /\ l.slot = l.rangeDelIterCopy
  /\ \E c \in AllCalls({EnvOK}) :
       /\ c.s.closedPoint = <<l.iter.file>> /\ c.s.closedRange = <<l.slot>>
       /\ c.s.opened # <<>> /\ c.s.iter.file \notin {0, l.iter.file}

\* The key kv follows what the call before returned in a forward walk: it is
\* null, or at or after the key returned before; after a null only a prefix
\* walk goes on, at or after the key it sought.
FollowsForward(kv) ==
  ~IsNil(kv) =>
    IF IsNil(ret) THEN walk.prefix /\ kv.UserKey >= walk.pos
    ELSE kv.UserKey >= ret.UserKey
\* The same for a reverse walk, which ends at the first null.
FollowsBackward(kv) == ~IsNil(kv) => ~IsNil(ret) /\ kv.UserKey <= ret.UserKey

\* C31: with a tombstone slot registered, each key a forward walk returns,
\* real or synthetic, has a user key at or after that of the key returned
\* before it, by Next, by NextPrefix and by a SeekGE with TrySeekUsingNext;
\* each key a reverse walk returns is at or before the one before it.  So a
\* forward boundary is at or after the last real key of its file and at or
\* before the first key returned from the next file.
C31_BoundariesInOrder ==
  hasSlot =>
    /\ walk.dir = "fwd" =>
         /\ \A e \in Envs : FollowsForward(Next(Enter(l), e).kv)
         /\ ~IsNil(ret) =>
              /\ \A k \in { x \in Keys : x > walk.pos } :
                   FollowsForward(NextPrefix(Enter(l), k, EnvOK).kv)
              /\ \A k \in { x \in SeekableKeys : x >= walk.pos } :
                   FollowsForward(SeekGE(Enter(l), k, Flags(TRUE, FALSE), EnvOK).kv)
    /\ walk.dir = "bwd" =>
         \A e \in Envs : FollowsBackward(Prev(Enter(l), e).kv)
\* A forward walk from First returned a real key of a file with a tombstone
\* and then the boundary of that file, at or after the key, and the next
\* Next returns a real key of the following file.
C31_Witness ==
  /\ hasSlot /\ walk.dir = "fwd" /\ walk.full /\ Len(walk.seen) >= 1
  /\ IsSynthetic(ret) /\ l.largestBoundary /\ l.iter.file # 0
  /\ \E i \in 1..Len(level[l.iter.file].keys) :
       level[l.iter.file].keys[i] = walk.seen[Len(walk.seen)]
  /\ ret.UserKey >= walk.seen[Len(walk.seen)]
  /\ IsReal(Next(Enter(l), EnvOK).kv)
  /\ Next(Enter(l), EnvOK).s.iter.file = l.iter.file + 1

\* The log s of a routine shows cursor steps in direction dir only, at most
\* one more than there are files, at most maxSeeks binary-search seeks of
\* the cursor, and no seek that moved the cursor against the steps.
StepsOneWay(s, dir, maxSeeks) ==
  /\ IF dir = 1 THEN s.prevs = 0 /\ s.nexts <= NumFiles + 1
     ELSE s.nexts = 0 /\ s.prevs <= NumFiles + 1
  /\ s.seeks <= maxSeeks /\ ~s.behind

====
